---- MODULE Spec2Model ----
(***************************************************************************)
(* A model of the submission state synchronizer of sifr (app/db.py): the   *)
(* Reconciler scan_and_insert_submissions, the grade save                  *)
(* save_feedback_with_submission, the SQLite store they write, and the     *)
(* directory tree and marks.csv they read.                                 *)
(*                                                                         *)
(* Text that the code inspects (directory names, roster fields) is a       *)
(* sequence of one-character strings, a path is a sequence of names.       *)
(* Points are counted in tenths of a point.                                *)
(***************************************************************************)
EXTENDS Integers, Sequences, FiniteSets, TLC

VARIABLES
    db,          \* the committed content of grading.db
    dirs,        \* the submission directories now on disk
    unreadable,  \* directories whose listing raises PermissionError
    marks_csv,   \* per root: the marks.csv file (absent, or its lines)
    last,        \* the last call made and what it raised
    io,          \* arguments and result of the last call without side effects
    files,       \* the plain files that come and go
    session_state \* st.session_state: the widget values of the browser session

vars == <<db, dirs, unreadable, marks_csv, last, io, files, session_state>>

----------------------------------------------------------------------------
(* Bounds *)

\* Largest submission id the AUTOINCREMENT counter may reach in the model.
MaxSeq == 2

\* Largest submission id while the review position is stepped.
MaxReviewSeq == 3

\* Largest step of the review position, forward and backward.
MaxStep == 2
MaxSelected == 2
MaxErrorCodeSeq == 2

----------------------------------------------------------------------------
(* Python values *)

None == <<"None">>
NoError == "NoError"

Max(S) == CHOOSE x \in S : \A y \in S : y <= x

RECURSIVE Perms(_)
Perms(S) ==
    IF S = {} THEN {<<>>}
    ELSE UNION {{<<x>> \o p : p \in Perms(S \ {x})} : x \in S}

\* The sequences over S of length up to n
SeqsUpTo(S, n) == UNION {[1..k -> S] : k \in 0..n}

\* dict.get(key, default) on a dict modelled as a function
DictGet(d, key, default) == IF key \in DOMAIN d THEN d[key] ELSE default

\* d[key] = value
DictSet(d, key, value) ==
    [k \in DOMAIN d \cup {key} |-> IF k = key THEN value ELSE d[k]]

EmptyDict == [k \in {} |-> None]

\* str.lower(), one character
LowerChar(c) ==
    CASE c = "A" -> "a" [] c = "B" -> "b" [] c = "C" -> "c" [] c = "D" -> "d"
      [] c = "E" -> "e" [] c = "F" -> "f" [] c = "G" -> "g" [] c = "H" -> "h"
      [] c = "I" -> "i" [] c = "J" -> "j" [] c = "K" -> "k" [] c = "L" -> "l"
      [] c = "M" -> "m" [] c = "N" -> "n" [] c = "O" -> "o" [] c = "P" -> "p"
      [] c = "Q" -> "q" [] c = "R" -> "r" [] c = "S" -> "s" [] c = "T" -> "t"
      [] c = "U" -> "u" [] c = "V" -> "v" [] c = "W" -> "w" [] c = "X" -> "x"
      [] c = "Y" -> "y" [] c = "Z" -> "z" [] OTHER -> c

RECURSIVE Lower(_)
Lower(s) == IF s = <<>> THEN <<>> ELSE <<LowerChar(Head(s))>> \o Lower(Tail(s))

\* str.startswith(prefix)
StartsWith(s, prefix) ==
    /\ Len(s) >= Len(prefix)
    /\ SubSeq(s, 1, Len(prefix)) = prefix

\* str.split(sep) for a one-character separator
RECURSIVE Split(_, _)
Split(s, sep) ==
    IF \A i \in 1..Len(s) : s[i] # sep THEN <<s>>
    ELSE LET i == CHOOSE k \in 1..Len(s) :
                      /\ s[k] = sep
                      /\ \A j \in 1..(k - 1) : s[j] # sep
         IN  <<SubSeq(s, 1, i - 1)>> \o Split(SubSeq(s, i + 1, Len(s)), sep)

\* os.path.basename and os.path.join on component sequences
BaseName(path) == path[Len(path)]
Join(path, name) == Append(path, name)

----------------------------------------------------------------------------
(* The directory trees of the model *)

Sheet_1 == <<"S", "h", "e", "e", "t", "-", "1">>
Sheet_2 == <<"S", "h", "e", "e", "t", "-", "2">>
Nope == <<"N", "o", "p", "e">>
exercise_1 == <<"e", "x", "e", "r", "c", "i", "s", "e", "-", "1">>
Excercise_2 == <<"E", "x", "c", "e", "r", "c", "i", "s", "e", "-", "2">>
exercise_9 == <<"e", "x", "e", "r", "c", "i", "s", "e", "-", "9">>
notes == <<"n", "o", "t", "e", "s">>
marks_csv_name == <<"m", "a", "r", "k", "s", ".", "c", "s", "v">>
Alice_Bob_ABC123 ==
    <<"A", "l", "i", "c", "e", "_", "B", "o", "b", "_", "A", "B", "C", "1", "2", "3">>
Carl == <<"C", "a", "r", "l">>
Dora_ == <<"D", "o", "r", "a", "_">>
Eve_X1 == <<"E", "v", "e", "_", "X", "1">>
README == <<"R", "E", "A", "D", "M", "E">>
ABC123 == <<"A", "B", "C", "1", "2", "3">>
Team_AB == <<"T", "e", "a", "m", " ", "A", "B">>
Team_ZZ == <<"T", "e", "a", "m", " ", "Z", "Z">>
Finn_F1 == <<"F", "i", "n", "n", "_", "F", "1">>

\* Two data directories holding a sheet of the same name, a second sheet, and
\* a root that is not on disk.
RootA1 == <<<<"a">>, Sheet_1>>
RootB1 == <<<<"b">>, Sheet_1>>
RootA2 == <<<<"a">>, Sheet_2>>
RootMissing == <<<<"a">>, Nope>>

\* A data directory whose sub-directories are looked over for sheet roots.
DataC == <<<<"c">>>>
RootC1 == Join(DataC, Sheet_1)
RootC2 == Join(DataC, Sheet_2)
Roots == {RootA1, RootB1, RootA2, RootMissing}

\* Directories that are always there.
StaticDirs ==
    { RootA1, RootB1, RootA2, DataC, RootC1, RootC2,
      Join(RootA1, exercise_1), Join(RootA1, Excercise_2),
      Join(RootB1, exercise_1), Join(Join(RootB1, exercise_1), Dora_),
      Join(RootB1, notes), Join(Join(RootB1, notes), Eve_X1),
      Join(RootA2, exercise_1), Join(Join(RootA2, exercise_1), Finn_F1) }

\* Plain files that are always there.
StaticFiles ==
    { Join(Join(RootA1, exercise_1), README),
      Join(RootA2, exercise_9) }

\* Submission directories that come and go.
SubmissionDirs ==
    { Join(Join(RootA1, exercise_1), Alice_Bob_ABC123),
      Join(Join(RootA1, Excercise_2), Carl) }

\* Directories whose permissions change.
ChmodDirs == { Join(RootA1, Excercise_2) }

\* marks.csv as a file: absent, or its lines, each a list of fields as
\* csv.reader returns it, and the line terminator its lines end with.
NoFile == [exists |-> FALSE, lines |-> <<>>, newline |-> ""]
File(lines) == [exists |-> TRUE, lines |-> lines, newline |-> "\n"]
RosterLine(id, group, points, status) ==
    <<id, group, Sheet_1, exercise_1, points, status>>

\* The contents a root's marks.csv may be given.
MarksContents(root) ==
    IF root = RootA1
    THEN { NoFile,
           File(<<RosterLine(Carl, Team_ZZ, <<"9">>, <<"SICK">>),
                  RosterLine(ABC123, Team_ZZ, <<"1">>, <<"SICK">>),
                  RosterLine(ABC123, Team_AB, <<"7", ".", "5">>, <<"FINAL_MARK">>)>>) }
    ELSE { NoFile }

\* os.path.isdir, os.path.exists
IsDir(path) == path \in StaticDirs \cup dirs
ExistsOn(disk, path) ==
    \/ IsDir(path)
    \/ path \in StaticFiles \cup disk
    \/ /\ Len(path) > 1
       /\ BaseName(path) = marks_csv_name
       /\ SubSeq(path, 1, Len(path) - 1) \in Roots
       /\ marks_csv[SubSeq(path, 1, Len(path) - 1)].exists
Exists(path) == ExistsOn(files, path)

\* The names os.listdir(path) returns, as a set: the order is the caller's.
Entries(path) ==
    LET all == StaticDirs \cup StaticFiles \cup dirs \cup files
        kids == {e \in all : Len(e) = Len(path) + 1 /\ SubSeq(e, 1, Len(path)) = path}
    IN  {BaseName(e) : e \in kids}
          \cup (IF Exists(Join(path, marks_csv_name)) THEN {marks_csv_name} ELSE {})

\* One order of every listing a pass over root can ask for: os.listdir returns
\* the entries in arbitrary order.
Listings(root) ==
    LET subs == {c \in Entries(root) : IsDir(Join(root, c))}
        orders == UNION {Perms(Entries(Join(root, c))) : c \in subs}
    IN  { [top |-> t, sub |-> f] :
            t \in Perms(Entries(root)),
            f \in {g \in [subs -> orders] :
                     \A c \in subs : g[c] \in Perms(Entries(Join(root, c)))} }

----------------------------------------------------------------------------
(* The store: grading.db *)

\* The values the CHECK constraint of submissions.status admits.
AllowedStatuses ==
    {"SUBMITTED", "PROVISIONAL_MARK", "FINAL_MARK", "RESUBMITTED", "ABSEND", "SICK"}

\* PRAGMA foreign_keys: SQLite leaves it off unless a connection turns it on,
\* and no connection of db.py does, so REFERENCES ... ON DELETE CASCADE is
\* declared but not acted on.
foreign_keys == FALSE

\* The tables right after init_db() on a fresh data directory.
EmptyDb ==
    [ sheets |-> {}, exercises |-> {}, submissions |-> {}, feedback |-> {},
      error_codes |-> {}, answer_sheets |-> {}, grader_state |-> EmptyDict,
      sqlite_sequence |->
          [sheets |-> 0, exercises |-> 0, submissions |-> 0, feedback |-> 0,
           error_codes |-> 0, answer_sheets |-> 0] ]

\* A variant for a table declared without AUTOINCREMENT, whose new rowid is
\* one more than the largest rowid in the table: what C38 tells apart from
\* the code.
Insert_MaxRowId(d, table, row) ==
    LET id == Max({r.id : r \in d[table]} \cup {0}) + 1
    IN  [d EXCEPT ![table] = @ \cup {[id |-> id] @@ row},
                  !.sqlite_sequence[table] = id]

\* INSERT INTO table: the AUTOINCREMENT id is one more than the largest id the
\* table ever gave out.
Insert(d, table, row) ==
    LET id == d.sqlite_sequence[table] + 1
    IN  [d EXCEPT ![table] = @ \cup {[id |-> id] @@ row},
                  !.sqlite_sequence[table] = id]

\* cursor.lastrowid after Insert(d, table, row)
LastRowId(d, table) == d.sqlite_sequence[table]

\* A variant without the obsolete-row deletion: what C4 tells apart from the
\* code.
DeleteSubmissions_Never(d, paths) == d

\* DELETE FROM submissions WHERE path = ?, for each of paths
DeleteSubmissions(d, paths) ==
    LET gone == {s \in d.submissions : s.path \in paths}
        ids == {s.id : s \in gone}
    IN  [d EXCEPT !.submissions = @ \ gone,
                  !.feedback = IF foreign_keys
                               THEN {f \in @ : f.submission_id \notin ids}
                               ELSE @]

\* A variant on an autocommit connection, where every statement is in the file
\* as soon as it ran: what C6 tells apart from the code.
Persisted_Autocommit(res) == res.tx

\* What a call leaves in the file: conn.commit() writes the transaction; a call
\* that raises never reaches it, and its connection is dropped uncommitted.
Persisted(res) == IF res.raised = NoError THEN res.tx ELSE res.base

----------------------------------------------------------------------------
(* Roster Loader *)

\* csv.DictReader with six fieldnames: a missing field reads as None
Field(line, i) == IF i <= Len(line) THEN line[i] ELSE None

RECURSIVE ReadRows(_, _)
ReadRows(lines, names) ==
    IF lines = <<>> THEN names
    ELSE LET row == Head(lines)
         IN  IF row = <<>>
             THEN ReadRows(Tail(lines), names)
             ELSE ReadRows(Tail(lines), DictSet(names, Field(row, 1), Field(row, 2)))

\* A variant that does not skip the first line: what C8 tells apart from the
\* code.
load_names_from_csv_NoHeader(file) ==
    IF file.lines = <<>>
    THEN [raised |-> "StopIteration", names |-> EmptyDict]
    ELSE [raised |-> NoError, names |-> ReadRows(file.lines, EmptyDict)]

\* load_names_from_csv(csv_path): next(reader) on a file without any line
\* raises StopIteration
load_names_from_csv(file) ==
    IF file.lines = <<>>
    THEN [raised |-> "StopIteration", names |-> EmptyDict]
    ELSE [raised |-> NoError, names |-> ReadRows(Tail(file.lines), EmptyDict)]

----------------------------------------------------------------------------
(* Reconciler *)

\* A variant that compares the name as it is, without lower(): what C28 tells
\* apart from the code.
IsExerciseName_CaseSensitive(name) ==
    \/ StartsWith(name, <<"e", "x", "c", "e", "r", "c", "i", "s", "e", "-">>)
    \/ StartsWith(name, <<"e", "x", "e", "r", "c", "i", "s", "e", "-">>)

\* exercise_dir.lower().startswith(('excercise-', 'exercise-'))
IsExerciseName(name) ==
    \/ StartsWith(Lower(name), <<"e", "x", "c", "e", "r", "c", "i", "s", "e", "-">>)
    \/ StartsWith(Lower(name), <<"e", "x", "e", "r", "c", "i", "s", "e", "-">>)

\* A variant that writes an existing path with INSERT OR REPLACE, which gives
\* the row a new id: what C1 tells apart from the code.
UpsertSubmission_Replace(t, sheet_id, exercise_id, exercise_path, submission_dir, names, existing_status_by_path) ==
    LET submission_path == Join(exercise_path, submission_dir)
        parts == Split(submission_dir, "_")
        submissionid == IF parts # <<>> THEN parts[Len(parts)] ELSE submission_dir
        submitter == DictGet(names, submissionid, submission_dir)
        status == DictGet(existing_status_by_path, submission_path, "SUBMITTED")
        existing == {s \in t.db.submissions : s.path = submission_path}
        written ==
            Insert([t.db EXCEPT !.submissions = @ \ existing], "submissions",
                   [path |-> submission_path, group_name |-> submission_dir,
                    submitter |-> submitter, sheet_id |-> sheet_id,
                    exercise_id |-> exercise_id, status |-> status])
    IN  IF ~IsDir(submission_path) THEN t
        ELSE IF status \notin AllowedStatuses
        THEN [t EXCEPT !.raised = "IntegrityError"]
        ELSE [t EXCEPT !.db = written,
                       !.discovered_paths = @ \cup {submission_path}]

\* A variant that takes the status of a new row from the status column of its
\* roster row: what C7 tells apart from the code.
UpsertSubmission_RosterStatus(t, sheet_id, exercise_id, exercise_path, submission_dir, names, existing_status_by_path) ==
    LET submission_path == Join(exercise_path, submission_dir)
        parts == Split(submission_dir, "_")
        submissionid == IF parts # <<>> THEN parts[Len(parts)] ELSE submission_dir
        submitter == DictGet(names, submissionid, submission_dir)
        lines == marks_csv[SubSeq(exercise_path, 1, Len(exercise_path) - 1)].lines
        rows == {i \in 2..Len(lines) : lines[i] # <<>> /\ lines[i][1] = submissionid}
        roster_status == IF rows = {} THEN "SUBMITTED" ELSE lines[Max(rows)][6][1]
        status == DictGet(existing_status_by_path, submission_path, roster_status)
        existing == {s \in t.db.submissions : s.path = submission_path}
        updated == {[s EXCEPT !.group_name = submission_dir,
                              !.submitter = submitter,
                              !.sheet_id = sheet_id,
                              !.exercise_id = exercise_id,
                              !.status = status] : s \in existing}
        written ==
            IF existing # {}
            THEN [t.db EXCEPT !.submissions = (@ \ existing) \cup updated]
            ELSE Insert(t.db, "submissions",
                        [path |-> submission_path, group_name |-> submission_dir,
                         submitter |-> submitter, sheet_id |-> sheet_id,
                         exercise_id |-> exercise_id, status |-> status])
    IN  IF ~IsDir(submission_path) THEN t
        ELSE IF status \notin AllowedStatuses
        THEN [t EXCEPT !.raised = "IntegrityError"]
        ELSE [t EXCEPT !.db = written,
                       !.discovered_paths = @ \cup {submission_path}]

\* A variant that inserts the row without looking the path up: what C34
\* tells apart from the code.
UpsertSubmission_Insert(t, sheet_id, exercise_id, exercise_path, submission_dir, names, existing_status_by_path) ==
    LET submission_path == Join(exercise_path, submission_dir)
        parts == Split(submission_dir, "_")
        submissionid == IF parts # <<>> THEN parts[Len(parts)] ELSE submission_dir
        submitter == DictGet(names, submissionid, submission_dir)
        status == DictGet(existing_status_by_path, submission_path, "SUBMITTED")
        written ==
            Insert(t.db, "submissions",
                   [path |-> submission_path, group_name |-> submission_dir,
                    submitter |-> submitter, sheet_id |-> sheet_id,
                    exercise_id |-> exercise_id, status |-> status])
    IN  IF ~IsDir(submission_path) THEN t
        ELSE IF status \notin AllowedStatuses
        THEN [t EXCEPT !.raised = "IntegrityError"]
        ELSE [t EXCEPT !.db = written,
                       !.discovered_paths = @ \cup {submission_path}]

\* The body of the inner loop for one entry of an exercise directory.
UpsertSubmission(t, sheet_id, exercise_id, exercise_path, submission_dir, names, existing_status_by_path) ==
    LET submission_path == Join(exercise_path, submission_dir)
        parts == Split(submission_dir, "_")
        submissionid == IF parts # <<>> THEN parts[Len(parts)] ELSE submission_dir
        submitter == DictGet(names, submissionid, submission_dir)
        status == DictGet(existing_status_by_path, submission_path, "SUBMITTED")
        existing == {s \in t.db.submissions : s.path = submission_path}
        updated == {[s EXCEPT !.group_name = submission_dir,
                              !.submitter = submitter,
                              !.sheet_id = sheet_id,
                              !.exercise_id = exercise_id,
                              !.status = status] : s \in existing}
        written ==
            IF existing # {}
            THEN [t.db EXCEPT !.submissions = (@ \ existing) \cup updated]
            ELSE Insert(t.db, "submissions",
                        [path |-> submission_path, group_name |-> submission_dir,
                         submitter |-> submitter, sheet_id |-> sheet_id,
                         exercise_id |-> exercise_id, status |-> status])
    IN  IF ~IsDir(submission_path) THEN t
        ELSE IF status \notin AllowedStatuses
        THEN [t EXCEPT !.raised = "IntegrityError"]
        ELSE [t EXCEPT !.db = written,
                       !.discovered_paths = @ \cup {submission_path}]

RECURSIVE ScanSubmissionDirs(_, _, _, _, _, _, _)
ScanSubmissionDirs(t, sheet_id, exercise_id, exercise_path, listing, names, existing_status_by_path) ==
    IF listing = <<>> \/ t.raised # NoError THEN t
    ELSE ScanSubmissionDirs(
             UpsertSubmission(t, sheet_id, exercise_id, exercise_path,
                              Head(listing), names, existing_status_by_path),
             sheet_id, exercise_id, exercise_path, Tail(listing),
             names, existing_status_by_path)

\* A variant that writes the Exercise row with INSERT OR REPLACE on every
\* pass: what C33 tells apart from the code.
ScanExerciseDir_Replace(t, root_dir, sheet_id, exercise_dir, order, names, existing_status_by_path) ==
    LET exercise_path == Join(root_dir, exercise_dir)
        exercise_code == exercise_dir
        exercise_rows == {e \in t.db.exercises :
                            e.sheet_id = sheet_id /\ e.code = exercise_code}
        d1 == Insert([t.db EXCEPT !.exercises = @ \ exercise_rows], "exercises",
                     [sheet_id |-> sheet_id, code |-> exercise_code,
                      title |-> None, max_points |-> 0])
        exercise_id == LastRowId(d1, "exercises")
    IN  IF ~(IsDir(exercise_path) /\ IsExerciseName(exercise_dir)) THEN t
        ELSE IF exercise_path \in unreadable
        THEN [t EXCEPT !.db = d1, !.raised = "PermissionError"]
        ELSE ScanSubmissionDirs([t EXCEPT !.db = d1], sheet_id, exercise_id,
                                exercise_path, order.sub[exercise_dir],
                                names, existing_status_by_path)

\* The body of the outer loop for one entry of the root directory.
ScanExerciseDir(t, root_dir, sheet_id, exercise_dir, order, names, existing_status_by_path) ==
    LET exercise_path == Join(root_dir, exercise_dir)
        exercise_code == exercise_dir
        exercise_rows == {e \in t.db.exercises :
                            e.sheet_id = sheet_id /\ e.code = exercise_code}
        d1 == IF exercise_rows = {}
              THEN Insert(t.db, "exercises",
                          [sheet_id |-> sheet_id, code |-> exercise_code,
                           title |-> None, max_points |-> 0])
              ELSE t.db
        exercise_id == IF exercise_rows = {}
                       THEN LastRowId(d1, "exercises")
                       ELSE (CHOOSE e \in exercise_rows : TRUE).id
    IN  IF ~(IsDir(exercise_path) /\ IsExerciseName(exercise_dir)) THEN t
        ELSE IF exercise_path \in unreadable
        THEN [t EXCEPT !.db = d1, !.raised = "PermissionError"]
        ELSE ScanSubmissionDirs([t EXCEPT !.db = d1], sheet_id, exercise_id,
                                exercise_path, order.sub[exercise_dir],
                                names, existing_status_by_path)

RECURSIVE ScanExerciseDirs(_, _, _, _, _, _, _)
ScanExerciseDirs(t, root_dir, sheet_id, listing, order, names, existing_status_by_path) ==
    IF listing = <<>> \/ t.raised # NoError THEN t
    ELSE ScanExerciseDirs(
             ScanExerciseDir(t, root_dir, sheet_id, Head(listing), order,
                             names, existing_status_by_path),
             root_dir, sheet_id, Tail(listing), order,
             names, existing_status_by_path)

\* A variant that inserts a Sheet row on every pass without looking one up:
\* what C32 tells apart from the code.
scan_and_insert_submissions_NewSheet(d, root_dir, order) ==
    LET sheet_name == BaseName(root_dir)
        d1 == Insert(d, "sheets", [name |-> sheet_name])
        sheet_id == LastRowId(d1, "sheets")
        of_sheet == {s \in d1.submissions : s.sheet_id = sheet_id}
        existing_status_by_path ==
            [p \in {s.path : s \in of_sheet} |->
                (CHOOSE s \in of_sheet : s.path = p).status]
        csv_path == Join(root_dir, marks_csv_name)
        loaded == IF Exists(csv_path)
                  THEN load_names_from_csv(marks_csv[root_dir])
                  ELSE [raised |-> NoError, names |-> EmptyDict]
        start == [raised |-> NoError, db |-> d1, discovered_paths |-> {}]
        t == ScanExerciseDirs(start, root_dir, sheet_id, order.top, order,
                              loaded.names, existing_status_by_path)
        obsolete_paths == DOMAIN existing_status_by_path \ t.discovered_paths
    IN  IF loaded.raised # NoError
        THEN [raised |-> loaded.raised, base |-> d, tx |-> d1]
        ELSE IF ~IsDir(root_dir)
        THEN [raised |-> "FileNotFoundError", base |-> d, tx |-> d1]
        ELSE IF root_dir \in unreadable
        THEN [raised |-> "PermissionError", base |-> d, tx |-> d1]
        ELSE IF t.raised # NoError
        THEN [raised |-> t.raised, base |-> d, tx |-> t.db]
        ELSE [raised |-> NoError, base |-> d,
              tx |-> DeleteSubmissions(t.db, obsolete_paths)]

\* A variant that takes a root that is not on disk for an empty directory and
\* commits: what C39 tells apart from the code.
scan_and_insert_submissions_MissingAsEmpty(d, root_dir, order) ==
    LET sheet_name == BaseName(root_dir)
        sheet_row == {s \in d.sheets : s.name = sheet_name}
        d1 == IF sheet_row = {}
              THEN Insert(d, "sheets", [name |-> sheet_name])
              ELSE d
        sheet_id == IF sheet_row = {}
                    THEN LastRowId(d1, "sheets")
                    ELSE (CHOOSE s \in sheet_row : TRUE).id
        of_sheet == {s \in d1.submissions : s.sheet_id = sheet_id}
        existing_status_by_path ==
            [p \in {s.path : s \in of_sheet} |->
                (CHOOSE s \in of_sheet : s.path = p).status]
        csv_path == Join(root_dir, marks_csv_name)
        loaded == IF Exists(csv_path)
                  THEN load_names_from_csv(marks_csv[root_dir])
                  ELSE [raised |-> NoError, names |-> EmptyDict]
        start == [raised |-> NoError, db |-> d1, discovered_paths |-> {}]
        t == ScanExerciseDirs(start, root_dir, sheet_id, order.top, order,
                              loaded.names, existing_status_by_path)
        obsolete_paths == DOMAIN existing_status_by_path \ t.discovered_paths
    IN  IF loaded.raised # NoError
        THEN [raised |-> loaded.raised, base |-> d, tx |-> d1]
        ELSE IF ~IsDir(root_dir)
        THEN [raised |-> NoError, base |-> d,
              tx |-> DeleteSubmissions(d1, DOMAIN existing_status_by_path)]
        ELSE IF root_dir \in unreadable
        THEN [raised |-> "PermissionError", base |-> d, tx |-> d1]
        ELSE IF t.raised # NoError
        THEN [raised |-> t.raised, base |-> d, tx |-> t.db]
        ELSE [raised |-> NoError, base |-> d,
              tx |-> DeleteSubmissions(t.db, obsolete_paths)]

\* scan_and_insert_submissions(root_dir) on the committed database d, with the
\* listing orders os.listdir happens to return. The result holds the database
\* the connection was opened on (base), the transaction as far as it got (tx)
\* and what was raised.
scan_and_insert_submissions(d, root_dir, order) ==
    LET sheet_name == BaseName(root_dir)
        sheet_row == {s \in d.sheets : s.name = sheet_name}
        d1 == IF sheet_row = {}
              THEN Insert(d, "sheets", [name |-> sheet_name])
              ELSE d
        sheet_id == IF sheet_row = {}
                    THEN LastRowId(d1, "sheets")
                    ELSE (CHOOSE s \in sheet_row : TRUE).id
        of_sheet == {s \in d1.submissions : s.sheet_id = sheet_id}
        existing_status_by_path ==
            [p \in {s.path : s \in of_sheet} |->
                (CHOOSE s \in of_sheet : s.path = p).status]
        csv_path == Join(root_dir, marks_csv_name)
        loaded == IF Exists(csv_path)
                  THEN load_names_from_csv(marks_csv[root_dir])
                  ELSE [raised |-> NoError, names |-> EmptyDict]
        start == [raised |-> NoError, db |-> d1, discovered_paths |-> {}]
        t == ScanExerciseDirs(start, root_dir, sheet_id, order.top, order,
                              loaded.names, existing_status_by_path)
        obsolete_paths == DOMAIN existing_status_by_path \ t.discovered_paths
    IN  IF loaded.raised # NoError
        THEN [raised |-> loaded.raised, base |-> d, tx |-> d1]
        ELSE IF ~IsDir(root_dir)
        THEN [raised |-> "FileNotFoundError", base |-> d, tx |-> d1]
        ELSE IF root_dir \in unreadable
        THEN [raised |-> "PermissionError", base |-> d, tx |-> d1]
        ELSE IF t.raised # NoError
        THEN [raised |-> t.raised, base |-> d, tx |-> t.db]
        ELSE [raised |-> NoError, base |-> d,
              tx |-> DeleteSubmissions(t.db, obsolete_paths)]

----------------------------------------------------------------------------
(* Grading Store: the grade save *)

\* A variant that always inserts the Feedback row: what C9 tells apart from
\* the code.
save_feedback_with_submission_Insert(d, submission_id, status, points, markdown_content, pdf_path) ==
    LET submission_data == {s \in d.submissions : s.id = submission_id}
        sub == CHOOSE s \in submission_data : TRUE
        d1 == Insert(d, "feedback",
                     [submission_id |-> submission_id,
                      sheet_id |-> sub.sheet_id,
                      exercise_id |-> sub.exercise_id,
                      points |-> points,
                      markdown_content |-> markdown_content,
                      pdf_path |-> pdf_path])
        d2 == [d1 EXCEPT !.submissions =
                 (@ \ submission_data) \cup
                 {[s EXCEPT !.status = status] : s \in submission_data}]
    IN  IF submission_data = {}
        THEN [raised |-> "ValueError", base |-> d, tx |-> d]
        ELSE IF status \notin AllowedStatuses
        THEN [raised |-> "IntegrityError", base |-> d, tx |-> d1]
        ELSE [raised |-> NoError, base |-> d, tx |-> d2]

\* A variant that commits the Feedback write before it updates the status, as
\* two transactions: what C10 tells apart from the code.
save_feedback_with_submission_TwoCommits(d, submission_id, status, points, markdown_content, pdf_path) ==
    LET submission_data == {s \in d.submissions : s.id = submission_id}
        sub == CHOOSE s \in submission_data : TRUE
        rows == {f \in d.feedback : f.submission_id = submission_id}
        d1 == IF rows # {}
              THEN [d EXCEPT !.feedback =
                      (@ \ rows) \cup
                      {[f EXCEPT !.sheet_id = sub.sheet_id,
                                 !.exercise_id = sub.exercise_id,
                                 !.points = points,
                                 !.markdown_content = markdown_content,
                                 !.pdf_path = pdf_path] : f \in rows}]
              ELSE Insert(d, "feedback",
                          [submission_id |-> submission_id,
                           sheet_id |-> sub.sheet_id,
                           exercise_id |-> sub.exercise_id,
                           points |-> points,
                           markdown_content |-> markdown_content,
                           pdf_path |-> pdf_path])
        d2 == [d1 EXCEPT !.submissions =
                 (@ \ submission_data) \cup
                 {[s EXCEPT !.status = status] : s \in submission_data}]
    IN  IF submission_data = {}
        THEN [raised |-> "ValueError", base |-> d, tx |-> d]
        ELSE IF status \notin AllowedStatuses
        THEN [raised |-> "IntegrityError", base |-> d1, tx |-> d1]
        ELSE [raised |-> NoError, base |-> d, tx |-> d2]

\* A variant on a submissions table without the CHECK constraint on status:
\* what C31 tells apart from the code.
save_feedback_with_submission_Unchecked(d, submission_id, status, points, markdown_content, pdf_path) ==
    LET submission_data == {s \in d.submissions : s.id = submission_id}
        sub == CHOOSE s \in submission_data : TRUE
        rows == {f \in d.feedback : f.submission_id = submission_id}
        d1 == IF rows # {}
              THEN [d EXCEPT !.feedback =
                      (@ \ rows) \cup
                      {[f EXCEPT !.sheet_id = sub.sheet_id,
                                 !.exercise_id = sub.exercise_id,
                                 !.points = points,
                                 !.markdown_content = markdown_content,
                                 !.pdf_path = pdf_path] : f \in rows}]
              ELSE Insert(d, "feedback",
                          [submission_id |-> submission_id,
                           sheet_id |-> sub.sheet_id,
                           exercise_id |-> sub.exercise_id,
                           points |-> points,
                           markdown_content |-> markdown_content,
                           pdf_path |-> pdf_path])
        d2 == [d1 EXCEPT !.submissions =
                 (@ \ submission_data) \cup
                 {[s EXCEPT !.status = status] : s \in submission_data}]
    IN  IF submission_data = {}
        THEN [raised |-> "ValueError", base |-> d, tx |-> d]
        ELSE [raised |-> NoError, base |-> d, tx |-> d2]

\* A variant whose statements bind the two keys of the Submission in the
\* other order: what C37 tells apart from the code.
save_feedback_with_submission_SwappedKeys(d, submission_id, status, points, markdown_content, pdf_path) ==
    LET submission_data == {s \in d.submissions : s.id = submission_id}
        sub == CHOOSE s \in submission_data : TRUE
        rows == {f \in d.feedback : f.submission_id = submission_id}
        d1 == IF rows # {}
              THEN [d EXCEPT !.feedback =
                      (@ \ rows) \cup
                      {[f EXCEPT !.sheet_id = sub.exercise_id,
                                 !.exercise_id = sub.sheet_id,
                                 !.points = points,
                                 !.markdown_content = markdown_content,
                                 !.pdf_path = pdf_path] : f \in rows}]
              ELSE Insert(d, "feedback",
                          [submission_id |-> submission_id,
                           sheet_id |-> sub.exercise_id,
                           exercise_id |-> sub.sheet_id,
                           points |-> points,
                           markdown_content |-> markdown_content,
                           pdf_path |-> pdf_path])
        d2 == [d1 EXCEPT !.submissions =
                 (@ \ submission_data) \cup
                 {[s EXCEPT !.status = status] : s \in submission_data}]
    IN  IF submission_data = {}
        THEN [raised |-> "ValueError", base |-> d, tx |-> d]
        ELSE IF status \notin AllowedStatuses
        THEN [raised |-> "IntegrityError", base |-> d, tx |-> d1]
        ELSE [raised |-> NoError, base |-> d, tx |-> d2]

\* save_feedback_with_submission(submission_id, status, points,
\* markdown_content, pdf_path) on the committed database d
save_feedback_with_submission(d, submission_id, status, points, markdown_content, pdf_path) ==
    LET submission_data == {s \in d.submissions : s.id = submission_id}
        sub == CHOOSE s \in submission_data : TRUE
        rows == {f \in d.feedback : f.submission_id = submission_id}
        feedback_exists == rows # {}
        d1 == IF feedback_exists
              THEN [d EXCEPT !.feedback =
                      (@ \ rows) \cup
                      {[f EXCEPT !.sheet_id = sub.sheet_id,
                                 !.exercise_id = sub.exercise_id,
                                 !.points = points,
                                 !.markdown_content = markdown_content,
                                 !.pdf_path = pdf_path] : f \in rows}]
              ELSE Insert(d, "feedback",
                          [submission_id |-> submission_id,
                           sheet_id |-> sub.sheet_id,
                           exercise_id |-> sub.exercise_id,
                           points |-> points,
                           markdown_content |-> markdown_content,
                           pdf_path |-> pdf_path])
        d2 == [d1 EXCEPT !.submissions =
                 (@ \ submission_data) \cup
                 {[s EXCEPT !.status = status] : s \in submission_data}]
    IN  IF submission_data = {}
        THEN [raised |-> "ValueError", base |-> d, tx |-> d]
        ELSE IF status \notin AllowedStatuses
        THEN [raised |-> "IntegrityError", base |-> d, tx |-> d1]
        ELSE [raised |-> NoError, base |-> d, tx |-> d2]

\* save_feedback(submission_id, points, markdown_content, pdf_path), which the
\* grading pages import from the store: the upsert of the Feedback row of a
\* submission, committed on return.
save_feedback(d, submission_id, points, markdown_content, pdf_path) ==
    LET submission_data == {s \in d.submissions : s.id = submission_id}
        sub == CHOOSE s \in submission_data : TRUE
        rows == {f \in d.feedback : f.submission_id = submission_id}
        d1 == IF rows # {}
              THEN [d EXCEPT !.feedback =
                      (@ \ rows) \cup
                      {[f EXCEPT !.sheet_id = sub.sheet_id,
                                 !.exercise_id = sub.exercise_id,
                                 !.points = points,
                                 !.markdown_content = markdown_content,
                                 !.pdf_path = pdf_path] : f \in rows}]
              ELSE Insert(d, "feedback",
                          [submission_id |-> submission_id,
                           sheet_id |-> sub.sheet_id,
                           exercise_id |-> sub.exercise_id,
                           points |-> points,
                           markdown_content |-> markdown_content,
                           pdf_path |-> pdf_path])
    IN  IF submission_data = {}
        THEN [raised |-> "ValueError", base |-> d, tx |-> d]
        ELSE [raised |-> NoError, base |-> d, tx |-> d1]

\* get_feedback(submission_id): the first matching row, or None
get_feedback(d, submission_id) ==
    LET rows == {f \in d.feedback : f.submission_id = submission_id}
    IN  IF rows = {} THEN None
        ELSE LET f == CHOOSE r \in rows : \A q \in rows : r.id <= q.id
             IN  <<f.points, f.markdown_content>>

----------------------------------------------------------------------------
(* Grading Store: the submission list *)

\* if exercise_code: neither None nor the empty string
Truthy(text) == text # None /\ text # <<>>

\* A variant with ORDER BY s.id DESC: what C13 tells apart from the code.
RECURSIVE OrderById_Desc(_)
OrderById_Desc(rows) ==
    IF rows = {} THEN <<>>
    ELSE LET first == CHOOSE r \in rows : \A q \in rows : r[1] >= q[1]
         IN  <<first>> \o OrderById_Desc(rows \ {first})

\* ORDER BY s.id
RECURSIVE OrderById(_)
OrderById(rows) ==
    IF rows = {} THEN <<>>
    ELSE LET first == CHOOSE r \in rows : \A q \in rows : r[1] <= q[1]
         IN  <<first>> \o OrderById(rows \ {first})

\* get_submissions(exercise_code): the rows (id, path, group_name, submitter,
\* exercise code, status) of submissions JOIN exercises.
get_submissions(d, exercise_code) ==
    LET joined == {p \in d.submissions \X d.exercises :
                      p[1].exercise_id = p[2].id}
        rows == {<<p[1].id, p[1].path, p[1].group_name, p[1].submitter,
                   p[2].code, p[1].status>> : p \in joined}
    IN  IF Truthy(exercise_code)
        THEN OrderById({r \in rows : r[5] = exercise_code})
        ELSE OrderById(rows)

----------------------------------------------------------------------------
(* Grading Store: grader state and the review position *)

Digits == <<"0", "1", "2", "3", "4", "5", "6", "7", "8", "9">>

\* str(n) of a non-negative int
RECURSIVE Str(_)
Str(n) ==
    IF n < 10 THEN <<Digits[n + 1]>>
    ELSE Str(n \div 10) \o <<Digits[(n % 10) + 1]>>

DigitValue(c) == (CHOOSE i \in 1..10 : Digits[i] = c) - 1

RECURSIVE DecimalValue(_)
DecimalValue(text) ==
    IF text = <<>> THEN 0
    ELSE 10 * DecimalValue(SubSeq(text, 1, Len(text) - 1))
         + DigitValue(text[Len(text)])

\* int(value) of a text: the set holding the number, empty where Python raises
\* ValueError.
ParseInt(text) ==
    IF text # <<>> /\ \A i \in 1..Len(text) : \E k \in 1..10 : Digits[k] = text[i]
    THEN {DecimalValue(text)}
    ELSE {}

REVIEW_CURRENT_SUBMISSION_KEY == "review_current_submission_id"

\* A variant with INSERT OR IGNORE, which keeps the value a key already has:
\* what C23 tells apart from the code.
save_grader_state_Ignore(d, key, value) ==
    [d EXCEPT !.grader_state =
        IF key \in DOMAIN @ THEN @ ELSE DictSet(@, key, value)]

\* INSERT OR REPLACE INTO grader_state (key, value); key is the primary key
\* of the table
save_grader_state(d, key, value) ==
    [d EXCEPT !.grader_state = DictSet(@, key, value)]

load_grader_state(d, key, default) == DictGet(d.grader_state, key, default)

delete_grader_state(d, key) ==
    [d EXCEPT !.grader_state = [k \in DOMAIN @ \ {key} |-> @[k]]]

\* get_review_current_submission_id(): the set holding the stored id, empty for
\* the default None.
get_review_current_submission_id(d) ==
    LET value == load_grader_state(d, REVIEW_CURRENT_SUBMISSION_KEY, None)
    IN  IF value = None THEN {} ELSE ParseInt(value)

set_review_current_submission_id(d, submission_id) ==
    save_grader_state(d, REVIEW_CURRENT_SUBMISSION_KEY, Str(submission_id))

\* get_sheet_id_by_name(name): the set holding the id of the sheet of that
\* name, empty for None. sheets.name is UNIQUE.
get_sheet_id_by_name(d, name) == {s.id : s \in {t \in d.sheets : t.name = name}}

\* get_answer_sheet_path(sheet_id): fetchone() of the rows of the sheet, which
\* SQLite walks in id order; None without a row.
get_answer_sheet_path(d, sheet_id) ==
    LET rows == {r \in d.answer_sheets : r.sheet_id = sheet_id}
    IN  IF rows = {} THEN None
        ELSE (CHOOSE r \in rows : \A o \in rows : r.id <= o.id).path_to_file

\* A variant with a plain INSERT on a table without the unique index on
\* sheet_id: what C24 tells apart from the code.
save_answer_sheet_path_Insert(d, sheet_id, file_path) ==
    IF file_path = None
    THEN [raised |-> "IntegrityError", base |-> d, tx |-> d]
    ELSE [raised |-> NoError, base |-> d,
          tx |-> Insert(d, "answer_sheets",
                        [sheet_id |-> sheet_id, path_to_file |-> file_path])]

\* save_answer_sheet_path(sheet_id, file_path): INSERT ... ON CONFLICT(sheet_id)
\* DO UPDATE SET path_to_file; path_to_file is NOT NULL
save_answer_sheet_path(d, sheet_id, file_path) ==
    IF file_path = None
    THEN [raised |-> "IntegrityError", base |-> d, tx |-> d]
    ELSE IF \E r \in d.answer_sheets : r.sheet_id = sheet_id
    THEN [raised |-> NoError, base |-> d,
          tx |-> [d EXCEPT !.answer_sheets =
                     {IF r.sheet_id = sheet_id
                      THEN [r EXCEPT !.path_to_file = file_path] ELSE r : r \in @}]]
    ELSE [raised |-> NoError, base |-> d,
          tx |-> Insert(d, "answer_sheets",
                        [sheet_id |-> sheet_id, path_to_file |-> file_path])]

\* delete_answer_sheet_path(sheet_id): DELETE FROM answer_sheets WHERE sheet_id = ?
delete_answer_sheet_path(d, sheet_id) ==
    [d EXCEPT !.answer_sheets = {r \in @ : r.sheet_id # sheet_id}]

get_review_submission_ids(d, exercise_code) ==
    LET rows == get_submissions(d, exercise_code)
    IN  [i \in 1..Len(rows) |-> rows[i][1]]

\* A variant that wraps around at both ends, as the next and previous buttons
\* of the correction page do: what C11 tells apart from the code.
step_review_current_submission_Wrap(d, step, exercise_code) ==
    LET ids == get_review_submission_ids(d, exercise_code)
        saved_id == get_review_current_submission_id(d)
        found == {i \in 1..Len(ids) : ids[i] \in saved_id}
        current_index ==
            IF found # {} THEN (CHOOSE i \in found : \A j \in found : i <= j) - 1
            ELSE IF step >= 0 THEN 0 ELSE Len(ids) - 1
        new_id == ids[((current_index + step) % Len(ids)) + 1]
    IN  IF ids = <<>>
        THEN [raised |-> "ValueError", base |-> d, tx |-> d, value |-> {}]
        ELSE [raised |-> NoError, base |-> d,
              tx |-> set_review_current_submission_id(d, new_id),
              value |-> {new_id}]

\* A variant that returns the new id without storing it: what C12 tells apart
\* from the code.
step_review_current_submission_NotStored(d, step, exercise_code) ==
    LET ids == get_review_submission_ids(d, exercise_code)
        saved_id == get_review_current_submission_id(d)
        found == {i \in 1..Len(ids) : ids[i] \in saved_id}
        current_index ==
            IF found # {} THEN (CHOOSE i \in found : \A j \in found : i <= j) - 1
            ELSE IF step >= 0 THEN 0 ELSE Len(ids) - 1
        moved == current_index + step
        new_index == IF moved < 0 THEN 0
                     ELSE IF moved >= Len(ids) THEN Len(ids) - 1
                     ELSE moved
    IN  IF ids = <<>>
        THEN [raised |-> "ValueError", base |-> d, tx |-> d, value |-> {}]
        ELSE [raised |-> NoError, base |-> d, tx |-> d,
              value |-> {ids[new_index + 1]}]

\* step_review_current_submission(step, exercise_code) on the committed
\* database d; indices count from 0 as in the code.
step_review_current_submission(d, step, exercise_code) ==
    LET ids == get_review_submission_ids(d, exercise_code)
        step_value == step
        saved_id == get_review_current_submission_id(d)
        found == {i \in 1..Len(ids) : ids[i] \in saved_id}
        current_index ==
            IF found # {} THEN (CHOOSE i \in found : \A j \in found : i <= j) - 1
            ELSE IF step_value >= 0 THEN 0 ELSE Len(ids) - 1
        moved == current_index + step_value
        new_index == IF moved < 0 THEN 0
                     ELSE IF moved >= Len(ids) THEN Len(ids) - 1
                     ELSE moved
        new_id == ids[new_index + 1]
    IN  IF ids = <<>>
        THEN [raised |-> "ValueError", base |-> d, tx |-> d, value |-> {}]
        ELSE [raised |-> NoError, base |-> d,
              tx |-> set_review_current_submission_id(d, new_id),
              value |-> {new_id}]

----------------------------------------------------------------------------
(* Grading Store: error codes *)

\* the characters of the codes in the order of COLLATE NOCASE: ASCII, with
\* the capital letters folded to the small ones
CharOrder ==
    <<" ", "-", ".", "0", "1", "2", "3", "4", "5", "6", "7", "8", "9", "_",
      "a", "b", "c", "d", "e", "f", "g", "h", "i", "j", "k", "l", "m",
      "n", "o", "p", "q", "r", "s", "t", "u", "v", "w", "x", "y", "z">>

CharRank(c) == CHOOSE i \in 1..Len(CharOrder) : CharOrder[i] = LowerChar(c)

RECURSIVE LessNoCase(_, _)
LessNoCase(a, b) ==
    IF b = <<>> THEN FALSE
    ELSE IF a = <<>> THEN TRUE
    ELSE IF CharRank(Head(a)) # CharRank(Head(b))
    THEN CharRank(Head(a)) < CharRank(Head(b))
    ELSE LessNoCase(Tail(a), Tail(b))

\* ORDER BY code COLLATE NOCASE; rows that tie are given in the order of
\* their ids
RECURSIVE OrderByCode(_)
OrderByCode(rows) ==
    IF rows = {} THEN <<>>
    ELSE LET first == CHOOSE r \in rows : \A o \in rows \ {r} :
                          \/ LessNoCase(r.code, o.code)
                          \/ ~LessNoCase(o.code, r.code) /\ r.id < o.id
         IN  <<first>> \o OrderByCode(rows \ {first})

\* get_error_codes(sheet_id=None); sheet_id is {} for None, {id} for an id
get_error_codes(d, sheet_id) ==
    LET rows == IF sheet_id = {} THEN d.error_codes
                ELSE {e \in d.error_codes : e.sheet_id \in sheet_id}
        ordered == OrderByCode(rows)
    IN  [i \in 1..Len(ordered) |->
            <<ordered[i].code, ordered[i].description,
              ordered[i].deduction, ordered[i].comment>>]

\* A variant on a table without UNIQUE(sheet_id, code): what C22 tells apart
\* from the code.
add_error_code_NoUnique(d, sheet_id, code, description, deduction, comment) ==
    IF foreign_keys /\ sheet_id \notin {sh.id : sh \in d.sheets}
    THEN [raised |-> "IntegrityError", base |-> d, tx |-> d]
    ELSE [raised |-> NoError, base |-> d,
          tx |-> Insert(d, "error_codes",
                        [sheet_id |-> sheet_id, code |-> code,
                         description |-> description, deduction |-> deduction,
                         comment |-> comment])]

\* add_error_code(sheet_id, code, description, deduction, comment):
\* UNIQUE(sheet_id, code); the reference to sheets is checked only with
\* foreign keys on.
add_error_code(d, sheet_id, code, description, deduction, comment) ==
    IF \/ \E e \in d.error_codes : e.sheet_id = sheet_id /\ e.code = code
       \/ foreign_keys /\ sheet_id \notin {sh.id : sh \in d.sheets}
    THEN [raised |-> "IntegrityError", base |-> d, tx |-> d]
    ELSE [raised |-> NoError, base |-> d,
          tx |-> Insert(d, "error_codes",
                        [sheet_id |-> sheet_id, code |-> code,
                         description |-> description, deduction |-> deduction,
                         comment |-> comment])]

\* delete_error_code(code, sheet_id=None); sheet_id is {} for None, {id} for
\* an id
delete_error_code(d, code, sheet_id) ==
    IF sheet_id = {}
    THEN [d EXCEPT !.error_codes = {e \in @ : e.code # code}]
    ELSE [d EXCEPT !.error_codes =
              {e \in @ : ~(e.code = code /\ e.sheet_id \in sheet_id)}]

----------------------------------------------------------------------------
(* Feedback Composer *)

\* ErrorCode(code, description, deduction, comment); deductions count tenths
\* of a point.
ErrorCode(code, description, deduction, comment) ==
    [code |-> code, description |-> description,
     deduction |-> deduction, comment |-> comment]

\* f"{x:g}" of a number of tenths
FormatG(tenths) ==
    LET n == IF tenths < 0 THEN 0 - tenths ELSE tenths
        whole == Str(n \div 10)
        text == IF n % 10 = 0 THEN whole
                ELSE whole \o <<".">> \o <<Digits[(n % 10) + 1]>>
    IN  IF tenths < 0 THEN <<"-">> \o text ELSE text

\* ErrorCode.as_option(): the label the selection shows for a code
as_option(ec) ==
    ec.code \o <<":", " ">> \o ec.description \o <<" ", "(">>
        \o FormatG(ec.deduction) \o <<" ", "P", "u", "n", "k", "t", "e", ")">>

\* label.split(":", 1)[0]
BeforeFirst(text, sep) ==
    LET at == {i \in 1..Len(text) : text[i] = sep}
    IN  IF at = {} THEN text
        ELSE SubSeq(text, 1, (CHOOSE i \in at : \A j \in at : i <= j) - 1)

IsSpace(c) == c \in {" ", "\t", "\n", "\r"}

\* str.strip()
Strip(text) ==
    LET solid == {i \in 1..Len(text) : ~IsSpace(text[i])}
    IN  IF solid = {} THEN <<>>
        ELSE SubSeq(text, CHOOSE i \in solid : \A j \in solid : i <= j,
                          CHOOSE i \in solid : \A j \in solid : i >= j)

\* code_map = {code.code: code for code in error_codes}
RECURSIVE CodeMap(_, _)
CodeMap(error_codes, code_map) ==
    IF error_codes = <<>> THEN code_map
    ELSE CodeMap(Tail(error_codes),
                 DictSet(code_map, Head(error_codes).code, Head(error_codes)))

\* A variant that subtracts without clamping the running total; the total is
\* clamped once at the end: what C14 tells apart from the code.
ApplyLabel_ClampLast(acc, label, code_map, is_last) ==
    LET code == Strip(BeforeFirst(label, ":"))
        info == code_map[code]
        total == acc.points - info.deduction
    IN  IF code \notin DOMAIN code_map
        THEN [acc EXCEPT !.points = IF is_last /\ @ < 0 THEN 0 ELSE @]
        ELSE [points |-> IF is_last /\ total < 0 THEN 0 ELSE total,
              markdown |->
                  IF info.comment # None /\ info.comment # <<>>
                  THEN acc.markdown \o <<"\n", "\n", " ", "#", "#", "#", " ">>
                           \o info.description \o <<":", " ", "-">>
                           \o FormatG(info.deduction) \o <<"P", "\n">>
                           \o info.comment
                  ELSE acc.markdown,
              raised |-> acc.raised]

\* A variant that looks every label up without asking whether the code is
\* known: what C15 tells apart from the code.
ApplyLabel_KeyError(acc, label, code_map, is_last) ==
    LET code == Strip(BeforeFirst(label, ":"))
        info == code_map[code]
    IN  IF code \notin DOMAIN code_map
        THEN [acc EXCEPT !.raised = "KeyError"]
        ELSE [points |-> IF acc.points - info.deduction < 0
                         THEN 0 ELSE acc.points - info.deduction,
              markdown |->
                  IF info.comment # None /\ info.comment # <<>>
                  THEN acc.markdown \o <<"\n", "\n", " ", "#", "#", "#", " ">>
                           \o info.description \o <<":", " ", "-">>
                           \o FormatG(info.deduction) \o <<"P", "\n">>
                           \o info.comment
                  ELSE acc.markdown,
              raised |-> acc.raised]

\* A variant that appends a block whenever the comment is not None, an empty
\* one included: what C16 tells apart from the code.
ApplyLabel_EmptyBlock(acc, label, code_map, is_last) ==
    LET code == Strip(BeforeFirst(label, ":"))
        info == code_map[code]
    IN  IF code \notin DOMAIN code_map THEN acc
        ELSE [points |-> IF acc.points - info.deduction < 0
                         THEN 0 ELSE acc.points - info.deduction,
              markdown |->
                  IF info.comment # None
                  THEN acc.markdown \o <<"\n", "\n", " ", "#", "#", "#", " ">>
                           \o info.description \o <<":", " ", "-">>
                           \o FormatG(info.deduction) \o <<"P", "\n">>
                           \o info.comment
                  ELSE acc.markdown,
              raised |-> acc.raised]

\* The loop body of apply_error_codes for one label (is_last: no label
\* follows; the code does not look at it).
ApplyLabel(acc, label, code_map, is_last) ==
    LET code == Strip(BeforeFirst(label, ":"))
        info == code_map[code]
    IN  IF code \notin DOMAIN code_map THEN acc
        ELSE [points |-> IF acc.points - info.deduction < 0
                         THEN 0 ELSE acc.points - info.deduction,
              markdown |->
                  IF info.comment # None /\ info.comment # <<>>
                  THEN acc.markdown \o <<"\n", "\n", " ", "#", "#", "#", " ">>
                           \o info.description \o <<":", " ", "-">>
                           \o FormatG(info.deduction) \o <<"P", "\n">>
                           \o info.comment
                  ELSE acc.markdown,
              raised |-> acc.raised]

RECURSIVE ApplyLabels(_, _, _)
ApplyLabels(acc, selected_labels, code_map) ==
    IF selected_labels = <<>> \/ acc.raised # NoError THEN acc
    ELSE ApplyLabels(ApplyLabel(acc, Head(selected_labels), code_map,
                                Len(selected_labels) = 1),
                     Tail(selected_labels), code_map)

\* apply_error_codes(selected_labels, error_codes, current_points,
\* current_markdown)
apply_error_codes(selected_labels, error_codes, current_points, current_markdown) ==
    ApplyLabels([points |-> current_points, markdown |-> current_markdown,
                 raised |-> NoError],
                selected_labels, CodeMap(error_codes, EmptyDict))

----------------------------------------------------------------------------
(* Marks-CSV Writer *)

\* str.rstrip(chars)
RECURSIVE RStrip(_, _)
RStrip(text, chars) ==
    IF text # <<>> /\ text[Len(text)] \in chars
    THEN RStrip(SubSeq(text, 1, Len(text) - 1), chars)
    ELSE text

\* _format_points(points); points count hundredths of a point
format_points(points) ==
    LET n == IF points < 0 THEN 0 - points ELSE points
        sign == IF points < 0 THEN <<"-">> ELSE <<>>
        text == sign \o Str(n \div 100) \o <<".">>
                    \o <<Digits[((n \div 10) % 10) + 1]>> \o <<Digits[(n % 10) + 1]>>
        stripped == IF "." \in {text[i] : i \in 1..Len(text)}
                    THEN RStrip(RStrip(text, {"0"}), {"."})
                    ELSE text
    IN  IF stripped = <<>> THEN <<"0">> ELSE stripped

\* the file csv.writer leaves: every line ends with "\r\n"
Written(rows) == [exists |-> TRUE, lines |-> rows, newline |-> "\r\n"]

\* A variant without the break: every data row with the id is rewritten;
\* what C17 tells apart from the code.
update_marks_csv_EveryRow(file, submission_id, points, status) ==
    LET rows == file.lines
        hits == {i \in 2..Len(rows) : rows[i] # <<>> /\ rows[i][1] = submission_id}
    IN  IF ~file.exists THEN [raised |-> "FileNotFoundError", file |-> file]
        ELSE IF hits = {} THEN [raised |-> "ValueError", file |-> file]
        ELSE IF \E i \in hits : Len(rows[i]) < 6
        THEN [raised |-> "IndexError", file |-> file]
        ELSE [raised |-> NoError,
              file |-> Written([i \in 1..Len(rows) |->
                           IF i \in hits
                           THEN [rows[i] EXCEPT ![5] = format_points(points),
                                                ![6] = <<status>>]
                           ELSE rows[i]])]

\* A variant that looks for the id in the first line too; what C18 tells
\* apart from the code.
update_marks_csv_Header(file, submission_id, points, status) ==
    LET rows == file.lines
        hits == {i \in 1..Len(rows) : rows[i] # <<>> /\ rows[i][1] = submission_id}
        first == CHOOSE i \in hits : \A j \in hits : i <= j
    IN  IF ~file.exists THEN [raised |-> "FileNotFoundError", file |-> file]
        ELSE IF hits = {} THEN [raised |-> "ValueError", file |-> file]
        ELSE IF Len(rows[first]) < 6 THEN [raised |-> "IndexError", file |-> file]
        ELSE [raised |-> NoError,
              file |-> Written([rows EXCEPT
                           ![first] = [@ EXCEPT ![5] = format_points(points),
                                                ![6] = <<status>>]])]

\* update_marks_csv(root_dir, submission_id, points, status): row[4] and
\* row[5] of a row with fewer than six fields raise IndexError, before the
\* file is opened for writing.
update_marks_csv(file, submission_id, points, status) ==
    LET rows == file.lines
        hits == {i \in 2..Len(rows) : rows[i] # <<>> /\ rows[i][1] = submission_id}
        first == CHOOSE i \in hits : \A j \in hits : i <= j
    IN  IF ~file.exists THEN [raised |-> "FileNotFoundError", file |-> file]
        ELSE IF hits = {} THEN [raised |-> "ValueError", file |-> file]
        ELSE IF Len(rows[first]) < 6 THEN [raised |-> "IndexError", file |-> file]
        ELSE [raised |-> NoError,
              file |-> Written([rows EXCEPT
                           ![first] = [@ EXCEPT ![5] = format_points(points),
                                                ![6] = <<status>>]])]

----------------------------------------------------------------------------
(* The calls the grader's pages make, and what happens on disk in between *)

\* The arguments the model saves grades with; "graded" is the default the
\* correction page falls back to, which the CHECK constraint rejects.
Saves ==
    { [status |-> "FINAL_MARK", points |-> 85,
       markdown_content |-> "Great work", pdf_path |-> <<"feedback.pdf">>],
      [status |-> "PROVISIONAL_MARK", points |-> 90,
       markdown_content |-> "Updated", pdf_path |-> None],
      [status |-> "graded", points |-> 90,
       markdown_content |-> "Updated", pdf_path |-> None] }

NoRoot == <<>>
NoCall == [fn |-> "none"]

Init ==
    /\ db = EmptyDb
    /\ dirs = {}
    /\ unreadable = {}
    /\ marks_csv = [r \in Roots |-> NoFile]
    /\ last = [call |-> "init_db", root |-> NoRoot, raised |-> NoError]
    /\ io = NoCall
    /\ files = {}
    /\ session_state = EmptyDict

\* A Reconciler pass over root, as long as the submission ids stay within
\* max_seq.
ScanWithin(root, max_seq) ==
    \E order \in Listings(root) :
        LET res == scan_and_insert_submissions(db, root, order)
        IN  /\ res.tx.sqlite_sequence.submissions <= max_seq
            /\ db' = Persisted(res)
            /\ last' = [call |-> "scan", root |-> root, raised |-> res.raised]
            /\ UNCHANGED <<dirs, unreadable, marks_csv, io, files, session_state>>

\* A Reconciler pass over root.
Scan(root) == ScanWithin(root, MaxSeq)

\* A grade save.
Save(submission_id, args) ==
    LET res == save_feedback_with_submission(
                   db, submission_id, args.status, args.points,
                   args.markdown_content, args.pdf_path)
    IN  /\ db' = Persisted(res)
        /\ last' = [call |-> "save", root |-> NoRoot, raised |-> res.raised]
        /\ UNCHANGED <<dirs, unreadable, marks_csv, io, files, session_state>>

Disk == [call |-> "disk", root |-> NoRoot, raised |-> NoError]

\* A submission directory appears (an archive is unpacked) or is removed.
MkDir(path) ==
    /\ path \notin dirs
    /\ dirs' = dirs \cup {path}
    /\ last' = Disk
    /\ UNCHANGED <<db, unreadable, marks_csv, io, files, session_state>>

RmDir(path) ==
    /\ path \in dirs
    /\ dirs' = dirs \ {path}
    /\ last' = Disk
    /\ UNCHANGED <<db, unreadable, marks_csv, io, files, session_state>>

\* A directory is made unreadable, or readable again.
Chmod(path) ==
    /\ unreadable' = IF path \in unreadable
                     THEN unreadable \ {path}
                     ELSE unreadable \cup {path}
    /\ last' = Disk
    /\ UNCHANGED <<db, dirs, marks_csv, io, files, session_state>>

\* marks.csv of a root is written, replaced or removed.
WriteMarks(root, content) ==
    /\ marks_csv[root] # content
    /\ marks_csv' = [marks_csv EXCEPT ![root] = content]
    /\ last' = Disk
    /\ UNCHANGED <<db, dirs, unreadable, io, files, session_state>>

\* The grader works on the two sheet roots while submissions come and go.
CoreRoots == {RootA1, RootB1}

Next ==
    \/ \E root \in CoreRoots : Scan(root)
    \/ \E id \in 1..MaxSeq, args \in Saves : Save(id, args)
    \/ \E path \in SubmissionDirs : MkDir(path)
    \/ \E path \in SubmissionDirs : RmDir(path)

Spec == Init /\ [][Next]_vars

\* Passes that can fail: a root that is not there, a directory that cannot be
\* listed, a marks.csv without any line.
FailureRoots == {RootA1, RootMissing}
EmptyFile == File(<<>>)

NextFailure ==
    \/ \E root \in FailureRoots : Scan(root)
    \/ \E id \in 1..MaxSeq, args \in Saves : Save(id, args)
    \/ \E path \in SubmissionDirs : MkDir(path)
    \/ \E path \in ChmodDirs : Chmod(path)
    \/ \E root \in FailureRoots : \E content \in {NoFile, EmptyFile} :
           WriteMarks(root, content)

SpecFailure == Init /\ [][NextFailure]_vars

\* A step of the review position.
Step(step, exercise_code) ==
    LET res == step_review_current_submission(db, step, exercise_code)
    IN  /\ db' = Persisted(res)
        /\ last' = [call |-> "step", root |-> NoRoot, raised |-> res.raised]
        /\ UNCHANGED <<dirs, unreadable, marks_csv, io, files, session_state>>

\* A page stores a value under a grader-state key, or removes the key.
SaveGraderState(key, value) ==
    /\ db' = save_grader_state(db, key, value)
    /\ last' = [call |-> "save_grader_state", root |-> NoRoot, raised |-> NoError,
                key |-> key, value |-> value]
    /\ UNCHANGED <<dirs, unreadable, marks_csv, io, files, session_state>>

DeleteGraderState(key) ==
    /\ db' = delete_grader_state(db, key)
    /\ last' = [call |-> "delete_grader_state", root |-> NoRoot, raised |-> NoError,
                key |-> key]
    /\ UNCHANGED <<dirs, unreadable, marks_csv, io, files, session_state>>

\* The keys the pages store and the values they store under them: an
\* exercise filter, a submission id, the empty string, None.
StateKeys == {"exercise_filter", "current_submission_id", REVIEW_CURRENT_SUBMISSION_KEY}
StateValues == {exercise_1, <<"1">>, <<>>, None}

NextGraderState ==
    \/ \E key \in StateKeys, value \in StateValues : SaveGraderState(key, value)
    \/ \E key \in StateKeys : DeleteGraderState(key)
    \/ Scan(RootA1)

SpecGraderState == Init /\ [][NextGraderState]_vars

----------------------------------------------------------------------------
(* Answer sheets *)

TARGET_FILENAME ==
    <<"a", "n", "s", "w", "e", "r", "_", "s", "h", "e", "e", "t", ".", "p", "d", "f">>

\* resolve_sheet_context(current_root, resolver): the set holding the context,
\* empty for None; the sheet is named after the last segment of the root.
resolve_sheet_context(d, current_root) ==
    IF current_root = NoRoot THEN {}
    ELSE LET sheet_name == BaseName(current_root)
         IN  {[root_path |-> current_root, sheet_name |-> sheet_name,
               sheet_id |-> get_sheet_id_by_name(d, sheet_name)]}

\* AnswerSheetStatus.effective_path
effective_path(status) ==
    IF status.exists_on_disk THEN status.configured_path ELSE None

\* A variant that takes a stored path for a file that is there: what C25 tells
\* apart from the code.
resolve_answer_sheet_status_Trusting(d, disk, sheet_context) ==
    IF sheet_context = {} \/ \E c \in sheet_context : c.sheet_id = {}
    THEN [sheet_id |-> {}, root_path |-> UNION {{c.root_path} : c \in sheet_context},
          configured_path |-> None, exists_on_disk |-> FALSE]
    ELSE LET c == CHOOSE c \in sheet_context : TRUE
             sheet_id == CHOOSE id \in c.sheet_id : TRUE
             stored_path == get_answer_sheet_path(d, sheet_id)
             configured_path ==
                 IF stored_path = None \/ stored_path = <<>> THEN None ELSE stored_path
         IN  [sheet_id |-> c.sheet_id, root_path |-> {c.root_path},
              configured_path |-> configured_path,
              exists_on_disk |-> configured_path # None]

\* resolve_answer_sheet_status(sheet_context): a stored path that is None or
\* the empty string is no configured path; root_path is the set holding the
\* root, empty for None. Path(stored_path) keeps the segments of the path.
resolve_answer_sheet_status(d, disk, sheet_context) ==
    IF sheet_context = {} \/ \E c \in sheet_context : c.sheet_id = {}
    THEN [sheet_id |-> {}, root_path |-> UNION {{c.root_path} : c \in sheet_context},
          configured_path |-> None, exists_on_disk |-> FALSE]
    ELSE LET c == CHOOSE c \in sheet_context : TRUE
             sheet_id == CHOOSE id \in c.sheet_id : TRUE
             stored_path == get_answer_sheet_path(d, sheet_id)
             configured_path ==
                 IF stored_path = None \/ stored_path = <<>> THEN None ELSE stored_path
         IN  [sheet_id |-> c.sheet_id, root_path |-> {c.root_path},
              configured_path |-> configured_path,
              exists_on_disk |-> configured_path # None /\ ExistsOn(disk, configured_path)]

\* The roots the pages work in, the names the answer sheet is saved under and
\* the paths handed to the store: a file that was never written and the
\* empty string.
MaxAnswerSeq == 2
loesung_pdf == <<"l", ".", "p", "d", "f">>
AnswerRoots == {NoRoot, RootA1, RootA2}
TargetNames == {TARGET_FILENAME}
StoredPaths == {Join(RootA1, loesung_pdf), <<>>}

SheetRoots == {RootA1, RootA2}
SheetIds == 1..2

\* The sidebar and the pages ask for the status of the sheet of a root.
ResolveAnswerSheetStatus(current_root) ==
    LET sheet_context == resolve_sheet_context(db, current_root)
    IN  /\ io' = [fn |-> "resolve_answer_sheet_status", sheet_context |-> sheet_context,
                  status |-> resolve_answer_sheet_status(db, files, sheet_context)]
        /\ last' = [call |-> "resolve_answer_sheet_status", root |-> current_root,
                    raised |-> NoError]
        /\ UNCHANGED <<db, dirs, unreadable, marks_csv, files, session_state>>

\* save_answer_sheet_path and delete_answer_sheet_path called on the store.
SaveAnswerSheetPath(sheet_id, file_path) ==
    LET res == save_answer_sheet_path(db, sheet_id, file_path)
    IN  /\ res.tx.sqlite_sequence.answer_sheets <= MaxAnswerSeq
        /\ db' = Persisted(res)
        /\ last' = [call |-> "save_answer_sheet_path", root |-> NoRoot,
                    raised |-> res.raised, sheet_id |-> sheet_id, path |-> file_path]
        /\ io' = NoCall
        /\ UNCHANGED <<dirs, unreadable, marks_csv, files, session_state>>

DeleteAnswerSheetPath(sheet_id) ==
    /\ db' = delete_answer_sheet_path(db, sheet_id)
    /\ last' = [call |-> "delete_answer_sheet_path", root |-> NoRoot,
                raised |-> NoError, sheet_id |-> sheet_id]
    /\ io' = NoCall
    /\ UNCHANGED <<dirs, unreadable, marks_csv, files, session_state>>

\* save_uploaded_answer_sheet(sheet_context, uploaded_file, target_name): the
\* file is written under the root, then its path is stored; the root is a
\* directory that is there, so mkdir(exist_ok=True) changes nothing.
SaveUploadedAnswerSheet(current_root, target_name) ==
    LET sheet_context == resolve_sheet_context(db, current_root)
    IN  IF sheet_context = {} \/ \E c \in sheet_context : c.sheet_id = {}
        THEN /\ last' = [call |-> "save_uploaded_answer_sheet", root |-> current_root,
                         raised |-> "ValueError"]
             /\ UNCHANGED <<db, dirs, unreadable, marks_csv, io, files, session_state>>
        ELSE LET c == CHOOSE c \in sheet_context : TRUE
                 sheet_id == CHOOSE id \in c.sheet_id : TRUE
                 target_path == Join(c.root_path, target_name)
                 res == save_answer_sheet_path(db, sheet_id, target_path)
             IN  /\ IsDir(c.root_path)
                 /\ res.tx.sqlite_sequence.answer_sheets <= MaxAnswerSeq
                 /\ files' = files \cup {target_path}
                 /\ db' = Persisted(res)
                 /\ io' = [fn |-> "resolve_answer_sheet_status",
                           sheet_context |-> sheet_context,
                           status |-> resolve_answer_sheet_status(db', files', sheet_context)]
                 /\ last' = [call |-> "save_uploaded_answer_sheet", root |-> current_root,
                             raised |-> res.raised, sheet_id |-> sheet_id,
                             path |-> target_path]
                 /\ UNCHANGED <<dirs, unreadable, marks_csv, session_state>>

\* delete_answer_sheet(sheet_context): unlink(missing_ok=True) of the configured
\* path, then the row goes.
DeleteAnswerSheet(current_root) ==
    LET sheet_context == resolve_sheet_context(db, current_root)
    IN  IF sheet_context = {} \/ \E c \in sheet_context : c.sheet_id = {}
        THEN /\ last' = [call |-> "delete_answer_sheet", root |-> current_root,
                         raised |-> "ValueError"]
             /\ UNCHANGED <<db, dirs, unreadable, marks_csv, io, files, session_state>>
        ELSE LET c == CHOOSE c \in sheet_context : TRUE
                 sheet_id == CHOOSE id \in c.sheet_id : TRUE
                 status == resolve_answer_sheet_status(db, files, sheet_context)
             IN  /\ files' = IF status.configured_path # None
                             THEN files \ {status.configured_path} ELSE files
                 /\ db' = delete_answer_sheet_path(db, sheet_id)
                 /\ io' = [fn |-> "resolve_answer_sheet_status",
                           sheet_context |-> sheet_context,
                           status |-> resolve_answer_sheet_status(db', files', sheet_context)]
                 /\ last' = [call |-> "delete_answer_sheet", root |-> current_root,
                             raised |-> NoError, sheet_id |-> sheet_id]
                 /\ UNCHANGED <<dirs, unreadable, marks_csv, session_state>>

\* Somebody removes a file from the disk.
Unlink(path) ==
    /\ path \in files
    /\ files' = files \ {path}
    /\ last' = [call |-> "unlink", root |-> NoRoot, raised |-> NoError]
    /\ io' = NoCall
    /\ UNCHANGED <<db, dirs, unreadable, marks_csv, session_state>>

NextAnswerSheet ==
    \/ Scan(RootA1)
    \/ \E root \in AnswerRoots : ResolveAnswerSheetStatus(root)
    \/ \E sheet_id \in SheetIds, path \in StoredPaths : SaveAnswerSheetPath(sheet_id, path)
    \/ \E sheet_id \in SheetIds : DeleteAnswerSheetPath(sheet_id)
    \/ \E root \in AnswerRoots, name \in TargetNames : SaveUploadedAnswerSheet(root, name)
    \/ \E root \in AnswerRoots : DeleteAnswerSheet(root)
    \/ \E path \in {Join(RootA1, name) : name \in TargetNames} : Unlink(path)

SpecAnswerSheet == Init /\ [][NextAnswerSheet]_vars

----------------------------------------------------------------------------
(* Answer-sheet toggle *)

true == <<"t", "r", "u", "e">>
false == <<"f", "a", "l", "s", "e">>

\* _parse_bool(value, fallback)
parse_bool(value, fallback) ==
    IF value = None THEN fallback
    ELSE Lower(value) \in {true, <<"1">>, <<"y", "e", "s">>}

\* f"{sheet_id or 'unknown'}": None and 0 read as 'unknown'
SheetSuffix(sheet_id) ==
    IF sheet_id = {} \/ sheet_id = {0} THEN "unknown"
    ELSE ToString(CHOOSE id \in sheet_id : TRUE)

widget_key(key_prefix, sheet_id) ==
    key_prefix \o "_show_answer_sheet_" \o SheetSuffix(sheet_id)

storage_key(key_prefix, sheet_id) ==
    key_prefix \o "_answer_sheet_pref_" \o SheetSuffix(sheet_id)

\* setup_answer_sheet_toggle(key_prefix, sheet_id, has_answer_sheet, session_state)
\* up to the return: the session mapping and the store it leaves.
\* ReviewStateManager.answer_sheet_checkbox_setup is the same code with the
\* prefix "review".
setup_answer_sheet_toggle(d, mapping, key_prefix, sheet_id, has_answer_sheet) ==
    LET key == widget_key(key_prefix, sheet_id)
        saved_pref == load_grader_state(d, storage_key(key_prefix, sheet_id), None)
        default_value == parse_bool(saved_pref, has_answer_sheet)
    IN  IF key \notin DOMAIN mapping
        THEN [mapping |-> DictSet(mapping, key, default_value), db |-> d]
        ELSE IF ~has_answer_sheet /\ mapping[key]
        THEN [mapping |-> DictSet(mapping, key, FALSE),
              db |-> save_grader_state(d, storage_key(key_prefix, sheet_id), false)]
        ELSE [mapping |-> mapping, db |-> d]

\* _on_change(): the callback setup_answer_sheet_toggle returns
on_change(d, mapping, key_prefix, sheet_id) ==
    save_grader_state(d, storage_key(key_prefix, sheet_id),
                      IF mapping[widget_key(key_prefix, sheet_id)] THEN true ELSE false)

\* A page sets the toggle up.
SetupAnswerSheetToggle(key_prefix, sheet_id, has_answer_sheet) ==
    LET res == setup_answer_sheet_toggle(db, session_state, key_prefix, sheet_id, has_answer_sheet)
    IN  /\ session_state' = res.mapping
        /\ db' = res.db
        /\ last' = [call |-> "setup_answer_sheet_toggle", root |-> NoRoot,
                    raised |-> NoError, key_prefix |-> key_prefix,
                    sheet_id |-> sheet_id, has_answer_sheet |-> has_answer_sheet]
        /\ UNCHANGED <<dirs, unreadable, marks_csv, io, files>>

\* The review page sets its checkbox up.
AnswerSheetCheckboxSetup(sheet_id, has_answer_sheet) ==
    LET res == setup_answer_sheet_toggle(db, session_state, "review", sheet_id, has_answer_sheet)
    IN  /\ session_state' = res.mapping
        /\ db' = res.db
        /\ last' = [call |-> "answer_sheet_checkbox_setup", root |-> NoRoot,
                    raised |-> NoError, key_prefix |-> "review",
                    sheet_id |-> sheet_id, has_answer_sheet |-> has_answer_sheet]
        /\ UNCHANGED <<dirs, unreadable, marks_csv, io, files>>

\* The user flips the checkbox: the widget value changes and the callback
\* runs.
ClickToggle(key_prefix, sheet_id) ==
    LET key == widget_key(key_prefix, sheet_id)
    IN  /\ key \in DOMAIN session_state
        /\ session_state' = DictSet(session_state, key, ~session_state[key])
        /\ db' = on_change(db, session_state', key_prefix, sheet_id)
        /\ last' = [call |-> "on_change", root |-> NoRoot, raised |-> NoError,
                    key_prefix |-> key_prefix, sheet_id |-> sheet_id]
        /\ UNCHANGED <<dirs, unreadable, marks_csv, io, files>>

\* The browser session ends: the widget values go, the store stays.
NewSession ==
    /\ session_state # EmptyDict
    /\ session_state' = EmptyDict
    /\ last' = [call |-> "new_session", root |-> NoRoot, raised |-> NoError]
    /\ UNCHANGED <<db, dirs, unreadable, marks_csv, io, files>>

\* The prefix of the grading page, the sheets the pages work on (None for a
\* root that was never scanned) and the preferences a page finds stored.
KeyPrefixes == {"korrektur"}
ToggleSheets == {{}, {7}}
Preferences == {true, <<"Y", "e", "s">>}

NextToggle ==
    \/ \E key_prefix \in KeyPrefixes, has \in BOOLEAN :
           SetupAnswerSheetToggle(key_prefix, {7}, has)
    \/ \E sheet_id \in ToggleSheets, has \in BOOLEAN : AnswerSheetCheckboxSetup(sheet_id, has)
    \/ \E key_prefix \in KeyPrefixes : ClickToggle(key_prefix, {7})
    \/ \E sheet_id \in ToggleSheets : ClickToggle("review", sheet_id)
    \/ NewSession
    \/ \E value \in Preferences : SaveGraderState(storage_key("review", {7}), value)
    \/ DeleteGraderState(storage_key("review", {7}))

SpecToggle == Init /\ [][NextToggle]_vars

----------------------------------------------------------------------------
(* Candidate roots *)

latest == <<"l", "a", "t", "e", "s", "t">>

\* A symbolic link in the data directory to one of its sheets, there while it
\* is among the files.
LatestLink == Join(DataC, latest)

\* Path.resolve(): the path with its symbolic links followed
resolve(path) ==
    IF Len(path) >= 2 /\ SubSeq(path, 1, 2) = LatestLink /\ LatestLink \in files
    THEN RootC1 \o SubSeq(path, 3, Len(path))
    ELSE path

\* Path.is_dir() and Path.exists() follow symbolic links
is_dir(path) == IsDir(resolve(path))
exists(path) == Exists(resolve(path))

\* The characters of the paths in code point order.
CodePoints ==
    <<" ", "-", ".", "/", "0", "1", "2", "3", "4", "5", "6", "7", "8", "9",
      "A", "B", "C", "D", "E", "F", "G", "H", "I", "J", "K", "L", "M",
      "N", "O", "P", "Q", "R", "S", "T", "U", "V", "W", "X", "Y", "Z", "_",
      "a", "b", "c", "d", "e", "f", "g", "h", "i", "j", "k", "l", "m",
      "n", "o", "p", "q", "r", "s", "t", "u", "v", "w", "x", "y", "z">>

Ord(c) == CHOOSE i \in 1..Len(CodePoints) : CodePoints[i] = c

\* str(path): the segments, each after a separator
RECURSIVE PathText(_)
PathText(path) ==
    IF path = <<>> THEN <<>> ELSE <<"/">> \o Head(path) \o PathText(Tail(path))

\* a < b for two str
RECURSIVE LessText(_, _)
LessText(a, b) ==
    IF b = <<>> THEN FALSE
    ELSE IF a = <<>> THEN TRUE
    ELSE IF Head(a) # Head(b) THEN Ord(Head(a)) < Ord(Head(b))
    ELSE LessText(Tail(a), Tail(b))

\* sorted(paths) for a set of paths
RECURSIVE SortedPaths(_)
SortedPaths(paths) ==
    IF paths = {} THEN <<>>
    ELSE LET first == CHOOSE p \in paths :
                          \A o \in paths \ {p} : LessText(PathText(p), PathText(o))
         IN  <<first>> \o SortedPaths(paths \ {first})

\* The body of the loop of find_candidate_roots for one entry: whether the
\* entry is appended.
LooksLikeRoot(item_path) ==
    /\ is_dir(item_path)
    /\ resolve(item_path) \notin unreadable
    /\ \/ exists(Join(item_path, marks_csv_name))
       \/ \E entry \in Entries(resolve(item_path)) :
              /\ is_dir(Join(item_path, entry))
              /\ IsExerciseName(entry)

RECURSIVE Candidates(_, _)
Candidates(base_dir, order) ==
    IF order = <<>> THEN <<>>
    ELSE (IF LooksLikeRoot(Join(base_dir, Head(order)))
          THEN <<resolve(Join(base_dir, Head(order)))>> ELSE <<>>)
         \o Candidates(base_dir, Tail(order))

\* A variant that returns the candidates as the listing gave them: what C27
\* tells apart from the code.
find_candidate_roots_Unsorted(base_dir, order) ==
    IF ~exists(base_dir) THEN [raised |-> NoError, result |-> <<>>]
    ELSE IF ~is_dir(base_dir) THEN [raised |-> "NotADirectoryError", result |-> <<>>]
    ELSE IF resolve(base_dir) \in unreadable
    THEN [raised |-> "PermissionError", result |-> <<>>]
    ELSE [raised |-> NoError, result |-> Candidates(base_dir, order)]

\* find_candidate_roots(base_dir), with the order iterdir() gives the entries
\* of base_dir in
find_candidate_roots(base_dir, order) ==
    IF ~exists(base_dir) THEN [raised |-> NoError, result |-> <<>>]
    ELSE IF ~is_dir(base_dir) THEN [raised |-> "NotADirectoryError", result |-> <<>>]
    ELSE IF resolve(base_dir) \in unreadable
    THEN [raised |-> "PermissionError", result |-> <<>>]
    ELSE LET candidates == Candidates(base_dir, order)
         IN  [raised |-> NoError,
              result |-> SortedPaths({candidates[i] : i \in 1..Len(candidates)})]

\* The page looks a data directory over for sheet roots.
FindCandidateRoots(base_dir) ==
    \E order \in Perms(Entries(base_dir)) :
        LET res == find_candidate_roots(base_dir, order)
        IN  /\ io' = [fn |-> "find_candidate_roots", base_dir |-> base_dir,
                      result |-> res.result]
            /\ last' = [call |-> "find_candidate_roots", root |-> NoRoot,
                        raised |-> res.raised]
            /\ UNCHANGED <<db, dirs, unreadable, marks_csv, files, session_state>>

\* Somebody writes a plain file or makes a link.
WriteFile(path) ==
    /\ ~Exists(path)
    /\ files' = files \cup {path}
    /\ last' = Disk
    /\ UNCHANGED <<db, dirs, unreadable, marks_csv, io, session_state>>

\* What comes and goes under the data directory: an exercise directory with
\* the misspelt name, a directory and a plain file that are no exercise
\* directories, a marks.csv, a plain file next to the sheets and the link.
CandidateDirs == { Join(RootC1, Excercise_2), Join(RootC2, notes) }
CandidateFiles ==
    { Join(RootC2, marks_csv_name), Join(RootC2, exercise_9),
      Join(DataC, README), LatestLink }
BaseDirs == { DataC, <<<<"z">>>>, Join(DataC, README) }

NextCandidates ==
    \/ \E base_dir \in BaseDirs : FindCandidateRoots(base_dir)
    \/ \E path \in CandidateDirs : MkDir(path)
    \/ \E path \in CandidateDirs : RmDir(path)
    \/ \E path \in CandidateFiles : WriteFile(path)
    \/ \E path \in CandidateFiles : Unlink(path)
    \/ \E path \in {RootC1, RootC2} : Chmod(path)

SpecCandidates == Init /\ [][NextCandidates]_vars

\* get_exercise_max_points(): a dict from code to max_points built from the
\* rows in the order of the table scan, by id, so that of the rows of one code
\* the one with the greatest id stays.
get_exercise_max_points(d) ==
    [code \in {e.code : e \in d.exercises} |->
        LET rows == {e \in d.exercises : e.code = code}
        IN  (CHOOSE e \in rows : \A f \in rows : f.id <= e.id).max_points]

\* save_exercise_max_points(exercise, max_points): the UPDATE is keyed by the
\* exercise code alone, so it reaches the Exercise of that code in every sheet.
save_exercise_max_points(d, exercise, max_points) ==
    [d EXCEPT !.exercises =
        {IF e.code = exercise THEN [e EXCEPT !.max_points = max_points] ELSE e :
            e \in @}]

SaveExerciseMaxPoints(exercise, max_points) ==
    /\ db' = save_exercise_max_points(db, exercise, max_points)
    /\ last' = [call |-> "save_exercise_max_points", root |-> NoRoot,
                raised |-> NoError]
    /\ UNCHANGED <<dirs, unreadable, marks_csv, io, files, session_state>>

\* Two sheets are scanned and rescanned while the grader sets the points of
\* their exercises and an exercise directory comes and goes in the second.
MaxPointsRoots == {RootA1, RootA2}
MaxPointsCodes == {exercise_1, Excercise_2}
MaxPointsValues == {10, 25}

NextMaxPoints ==
    \/ \E root \in MaxPointsRoots : Scan(root)
    \/ \E exercise \in MaxPointsCodes, max_points \in MaxPointsValues :
           SaveExerciseMaxPoints(exercise, max_points)
    \/ MkDir(Join(RootA2, Excercise_2))
    \/ RmDir(Join(RootA2, Excercise_2))

SpecMaxPoints == Init /\ [][NextMaxPoints]_vars

\* The three sheet roots are scanned and the data directory is looked over
\* while an exercise directory comes and goes in one of its sheets.
ExerciseRoots == {RootA1, RootB1, RootA2}

NextExercise ==
    \/ \E root \in ExerciseRoots : Scan(root)
    \/ FindCandidateRoots(DataC)
    \/ MkDir(Join(RootC1, Excercise_2))
    \/ RmDir(Join(RootC1, Excercise_2))
    \/ WriteFile(Join(RootC2, exercise_9))

SpecExercise == Init /\ [][NextExercise]_vars

----------------------------------------------------------------------------
(* Feedback PDF *)

\* sub in text
Contains(text, sub) ==
    \E i \in 1..(Len(text) - Len(sub) + 1) : SubSeq(text, i, i + Len(sub) - 1) = sub

\* Path.with_suffix(suffix) on the name of a path: the part from the last
\* dot on is replaced, unless the dot leads or ends the name
with_suffix(path, suffix) ==
    LET name == BaseName(path)
        dots == {i \in 2..(Len(name) - 1) : name[i] = "."}
        stem == IF dots = {} THEN name
                ELSE SubSeq(name, 1, (CHOOSE i \in dots : \A j \in dots : j <= i) - 1)
    IN  Join(SubSeq(path, 1, Len(path) - 1), stem \o suffix)

\* Path.parent
parent_of(path) == SubSeq(path, 1, Len(path) - 1)

\* What pypandoc.convert_file does: it returns, raises RuntimeError or raises
\* another exception, with a message.
Converted == [kind |-> "ok", message |-> <<>>]
RuntimeError(message) == [kind |-> "RuntimeError", message |-> message]
OtherError(message) == [kind |-> "Exception", message |-> message]

\* The message a failed call returns: its fixed text and the text of the
\* exception or path put into it.
ErrorMsg(text, detail) == {[text |-> text, detail |-> detail]}

\* error_msg of the except RuntimeError branch
ConversionError(e) ==
    LET error_str == Lower(e)
    IN  IF Contains(error_str, <<"p", "a", "n", "d", "o", "c">>) /\ Contains(error_str, <<"n", "o", "t", " ", "f", "o", "u", "n", "d">>)
        THEN ErrorMsg("Pandoc is not installed or not found in PATH", <<>>)
        ELSE IF Contains(error_str, <<"x", "e", "l", "a", "t", "e", "x">>) \/ Contains(error_str, <<"l", "a", "t", "e", "x">>)
        THEN ErrorMsg("LaTeX engine error: ", e)
        ELSE ErrorMsg("PDF conversion failed: ", e)

\* A variant without the except Exception branches: what C29 tells apart from
\* the code.
generate_feedback_pdf_Reraise(disk, output_path, write_error, convert) ==
    LET temp_md_path == with_suffix(output_path, <<".", "m", "d">>)
        output_dir == parent_of(output_path)
        written == disk \cup {temp_md_path}
    IN  IF ~ExistsOn(disk, output_dir)
        THEN [raised |-> NoError, success |-> FALSE, files |-> disk,
              error_msg |-> ErrorMsg("Output directory does not exist: ", PathText(output_dir))]
        ELSE IF write_error # NoError \/ IsDir(temp_md_path)
        THEN [raised |-> NoError, success |-> FALSE, files |-> disk,
              error_msg |-> ErrorMsg("Failed to write temporary markdown file: ", <<>>)]
        ELSE IF convert.kind = "RuntimeError"
        THEN [raised |-> NoError, success |-> FALSE, files |-> written \ {temp_md_path},
              error_msg |-> ConversionError(convert.message)]
        ELSE IF convert.kind = "Exception"
        THEN [raised |-> "Exception", success |-> FALSE, files |-> written, error_msg |-> {}]
        ELSE [raised |-> NoError, success |-> TRUE, error_msg |-> {},
              files |-> (written \cup {output_path}) \ {temp_md_path}]

\* generate_feedback_pdf(markdown_content, name, points, output_path, ...) for
\* an output_path that names a file: what it returns, what it raises and the
\* files it leaves. write_error is what write_text raises; error_msg is the
\* set holding the message, empty for None.
generate_feedback_pdf(disk, output_path, write_error, convert) ==
    LET temp_md_path == with_suffix(output_path, <<".", "m", "d">>)
        output_dir == parent_of(output_path)
        written == disk \cup {temp_md_path}
    IN  IF ~ExistsOn(disk, output_dir)
        THEN [raised |-> NoError, success |-> FALSE, files |-> disk,
              error_msg |-> ErrorMsg("Output directory does not exist: ", PathText(output_dir))]
        ELSE IF write_error # NoError \/ IsDir(temp_md_path)
        THEN [raised |-> NoError, success |-> FALSE, files |-> disk,
              error_msg |-> ErrorMsg("Failed to write temporary markdown file: ", <<>>)]
        ELSE IF convert.kind = "RuntimeError"
        THEN [raised |-> NoError, success |-> FALSE, files |-> written \ {temp_md_path},
              error_msg |-> ConversionError(convert.message)]
        ELSE IF convert.kind = "Exception"
        THEN [raised |-> NoError, success |-> FALSE, files |-> written \ {temp_md_path},
              error_msg |-> ErrorMsg("Unexpected error during PDF conversion: ", convert.message)]
        ELSE [raised |-> NoError, success |-> TRUE, error_msg |-> {},
              files |-> (written \cup {output_path}) \ {temp_md_path}]

\* A page has the feedback of a submission typeset.
GenerateFeedbackPdf(output_path, write_error, convert) ==
    LET res == generate_feedback_pdf(files, output_path, write_error, convert)
    IN  /\ files' = res.files
        /\ io' = [fn |-> "generate_feedback_pdf", output_path |-> output_path,
                  write_error |-> write_error, convert |-> convert,
                  success |-> res.success, error_msg |-> res.error_msg]
        /\ last' = [call |-> "generate_feedback_pdf", root |-> NoRoot,
                    raised |-> res.raised]
        /\ UNCHANGED <<db, dirs, unreadable, marks_csv, session_state>>

\* os.rmdir(path): a directory that holds no file is removed.
RemoveEmptyDir(path) ==
    /\ path \in dirs
    /\ \A file \in files : parent_of(file) # path
    /\ dirs' = dirs \ {path}
    /\ last' = Disk
    /\ UNCHANGED <<db, unreadable, marks_csv, io, files, session_state>>

\* The file the pages write, in a submission directory that comes and goes,
\* and a file name that ends in a dot; what the converter answers and what
\* writing the temporary file raises.
feedback_ABC123 == <<"f", "e", "e", "d", "b", "a", "c", "k", "_", "A", "B", "C", "1", "2", "3", ".", "p", "d", "f">>
feedback_dot == <<"f", "e", "e", "d", "b", "a", "c", "k", ".">>
OutputPaths ==
    { Join(Join(Join(RootA1, exercise_1), Alice_Bob_ABC123), feedback_ABC123),
      Join(Join(RootA1, exercise_1), feedback_dot) }
Conversions ==
    { Converted,
      RuntimeError(<<"p", "a", "n", "d", "o", "c", " ", "n", "o", "t", " ", "f", "o", "u", "n", "d">>),
      RuntimeError(<<"P", "a", "n", "d", "o", "c", ":", " ", "x", "e", "l", "a", "t", "e", "x", " ", "N", "o", "t", " ", "F", "o", "u", "n", "d">>),
      RuntimeError(<<"x", "e", "l", "a", "t", "e", "x", ":", " ", "c", "o", "m", "m", "a", "n", "d", " ", "n", "o", "t", " ", "f", "o", "u", "n", "d">>),
      RuntimeError(<<"L", "a", "T", "e", "X", " ", "E", "r", "r", "o", "r">>),
      RuntimeError(<<"S", "o", "m", "e", " ", "o", "t", "h", "e", "r", " ", "e", "r", "r", "o", "r">>),
      RuntimeError(<<"p", "a", "n", "d", "o", "c", " ", "d", "i", "e", "d">>),
      OtherError(<<"p", "a", "n", "d", "o", "c", " ", "n", "o", "t", " ", "f", "o", "u", "n", "d">>) }
WriteErrors == {NoError, "PermissionError"}

NextPdf ==
    \/ \E output_path \in OutputPaths, write_error \in WriteErrors, convert \in Conversions :
           GenerateFeedbackPdf(output_path, write_error, convert)
    \/ MkDir(Join(Join(RootA1, exercise_1), Alice_Bob_ABC123))
    \/ RemoveEmptyDir(Join(Join(RootA1, exercise_1), Alice_Bob_ABC123))
    \/ \E output_path \in OutputPaths : WriteFile(with_suffix(output_path, <<".", "m", "d">>))

SpecPdf == Init /\ [][NextPdf]_vars

----------------------------------------------------------------------------
(* PDF classification *)

\* Path(candidate): a candidate is the text of a path, cut at its separators;
\* Path drops the segments that are empty or a single dot.
RECURSIVE Path(_)
Path(candidate) ==
    IF candidate = <<>> THEN <<>>
    ELSE (IF Head(candidate) \in {<<>>, <<".">>} THEN <<>> ELSE <<Head(candidate)>>)
         \o Path(Tail(candidate))

valid_pdf == <<"v", "a", "l", "i", "d", ".", "p", "d", "f">>
missing_pdf == <<"m", "i", "s", "s", "i", "n", "g", ".", "p", "d", "f">>
not_pdf == <<"n", "o", "t", "_", "p", "d", "f", ".", "p", "d", "f">>
short_pdf == <<"s", "h", "o", "r", "t", ".", "p", "d", "f">>
locked_pdf == <<"l", "o", "c", "k", "e", "d", ".", "p", "d", "f">>

\* What the files of the tests hold.
Content(path) ==
    IF BaseName(path) = valid_pdf THEN <<"%", "P", "D", "F", "-", "1", ".", "7">>
    ELSE IF BaseName(path) = locked_pdf THEN <<"%", "P", "D", "F", "-", "1", ".", "4">>
    ELSE IF BaseName(path) = not_pdf THEN <<"A", "B", "C", "D">>
    ELSE IF BaseName(path) = short_pdf THEN <<"%", "P", "D">>
    ELSE <<>>

\* handle.read(n)
Read(path, n) ==
    SubSeq(Content(path), 1, IF Len(Content(path)) < n THEN Len(Content(path)) ELSE n)

\* The reason classify_pdf_candidates finds for a path: the set holding it,
\* empty for None. A path in unreadable is a file whose open raises OSError.
Reason(path) ==
    IF ~Exists(path) THEN {"Datei nicht gefunden"}
    ELSE IF IsDir(path) THEN {"Pfad ist keine Datei"}
    ELSE IF path \in unreadable THEN {"Datei konnte nicht gelesen werden: "}
    ELSE IF Len(Read(path, 4)) < 4 \/ ~StartsWith(Read(path, 4), <<"%", "P", "D", "F">>)
    THEN {"Datei besitzt keinen PDF-Header"}
    ELSE {}

\* A variant that lets the OSError of an unreadable file through: what C30
\* tells apart from the code.
RECURSIVE classify_pdf_candidates_Abort(_, _)
classify_pdf_candidates_Abort(pdfs, acc) ==
    IF pdfs = <<>> \/ acc.raised # NoError THEN acc
    ELSE LET path == Path(Head(pdfs))
             reason == Reason(path)
         IN  classify_pdf_candidates_Abort(Tail(pdfs),
                 IF Exists(path) /\ ~IsDir(path) /\ path \in unreadable
                 THEN [acc EXCEPT !.raised = "OSError"]
                 ELSE IF reason # {}
                 THEN [acc EXCEPT !.issues = Append(@, <<path, CHOOSE r \in reason : TRUE>>)]
                 ELSE [acc EXCEPT !.valid = Append(@, path)])

\* classify_pdf_candidates(pdfs): the loop over the candidates, from the
\* empty lists on
RECURSIVE classify_pdf_candidates(_, _)
classify_pdf_candidates(pdfs, acc) ==
    IF pdfs = <<>> THEN acc
    ELSE LET path == Path(Head(pdfs))
             reason == Reason(path)
         IN  classify_pdf_candidates(Tail(pdfs),
                 IF reason # {}
                 THEN [acc EXCEPT !.issues = Append(@, <<path, CHOOSE r \in reason : TRUE>>)]
                 ELSE [acc EXCEPT !.valid = Append(@, path)])

NoLists == [raised |-> NoError, valid |-> <<>>, issues |-> <<>>]

\* The page classifies the PDFs of a submission.
ClassifyPdfCandidates ==
    /\ io.fn = "classify_pdf_candidates"
    /\ ~io.done
    /\ io' = [io EXCEPT !.done = TRUE,
                        !.result = classify_pdf_candidates(io.pdfs, NoLists)]
    /\ UNCHANGED <<db, dirs, unreadable, marks_csv, last, files, session_state>>

\* The files of the tests in a sheet root: a PDF, a file with another header,
\* a file shorter than a header, a PDF that cannot be opened; the candidates
\* name them, a directory, a file that is not there, and the PDF once more by
\* a path with a dot segment.
MaxPdfs == 3
PdfFiles ==
    { Join(RootA1, valid_pdf), Join(RootA1, not_pdf), Join(RootA1, short_pdf),
      Join(RootA1, locked_pdf) }
PdfCandidates ==
    { Join(RootA1, valid_pdf), Join(RootA1, missing_pdf), Join(RootA1, exercise_1),
      Join(RootA1, not_pdf), Join(RootA1, short_pdf), Join(RootA1, locked_pdf),
      Join(Join(RootA1, <<".">>), valid_pdf) }

InitPdfs ==
    /\ db = EmptyDb
    /\ dirs = {}
    /\ unreadable = {Join(RootA1, locked_pdf)}
    /\ marks_csv = [r \in Roots |-> NoFile]
    /\ last = [call |-> "init_db", root |-> NoRoot, raised |-> NoError]
    /\ \E pdfs \in SeqsUpTo(PdfCandidates, MaxPdfs) :
           io = [fn |-> "classify_pdf_candidates", done |-> FALSE, pdfs |-> pdfs,
                 result |-> NoLists]
    /\ files = PdfFiles
    /\ session_state = EmptyDict

NextPdfs == ClassifyPdfCandidates

SpecPdfs == InitPdfs /\ [][NextPdfs]_vars

\* The review page steps through the submissions of two sheets while
\* submissions come and go.
ReviewRoots == {RootA1, RootA2}
Steps == (0 - MaxStep)..MaxStep
Filters == {None, exercise_1, Excercise_2, exercise_9}
NotANumber == <<"a", "b", "c">>

NextReview ==
    \/ \E root \in ReviewRoots : ScanWithin(root, MaxReviewSeq)
    \/ \E path \in SubmissionDirs : MkDir(path)
    \/ \E path \in SubmissionDirs : RmDir(path)
    \/ \E step \in Steps, exercise_code \in Filters : Step(step, exercise_code)
    \/ SaveGraderState(REVIEW_CURRENT_SUBMISSION_KEY, NotANumber)
    \/ DeleteGraderState(REVIEW_CURRENT_SUBMISSION_KEY)

SpecReview == Init /\ [][NextReview]_vars

\* One sheet is scanned while its submissions are graded, removed from disk
\* and unpacked again, and the review page steps through them.
IdRoots == {RootA1}
IdSaves == {args \in Saves : args.status = "FINAL_MARK"}
IdSteps == {0 - 1, 1}

NextIds ==
    \/ \E root \in IdRoots : Scan(root)
    \/ \E path \in SubmissionDirs : MkDir(path)
    \/ \E path \in SubmissionDirs : RmDir(path)
    \/ \E id \in 1..MaxSeq, args \in IdSaves : Save(id, args)
    \/ \E step \in IdSteps : Step(step, None)

SpecIds == Init /\ [][NextIds]_vars

\* A sheet root with one exercise directory and one submission is unpacked
\* from an archive, and removed from disk with all it holds.
Tree(root) ==
    { root, Join(root, exercise_1), Join(Join(root, exercise_1), Carl) }

MakeTree(root) ==
    /\ ~IsDir(root)
    /\ dirs' = dirs \cup Tree(root)
    /\ last' = Disk
    /\ UNCHANGED <<db, unreadable, marks_csv, io, files, session_state>>

RemoveTree(root) ==
    /\ IsDir(root)
    /\ dirs' = {path \in dirs : ~StartsWith(path, root)}
    /\ last' = Disk
    /\ UNCHANGED <<db, unreadable, marks_csv, io, files, session_state>>

\* Passes over a root that is there at one time and gone at another, next to a
\* root that stays, while submissions are graded.
MissingRoots == {RootA2, RootMissing}

NextMissing ==
    \/ \E root \in MissingRoots : Scan(root)
    \/ \E id \in 1..MaxSeq, args \in Saves : Save(id, args)
    \/ MakeTree(RootMissing)
    \/ RemoveTree(RootMissing)

SpecMissing == Init /\ [][NextMissing]_vars

\* Passes while the roster is written and replaced.
NextRoster ==
    \/ \E root \in CoreRoots : Scan(root)
    \/ \E path \in SubmissionDirs : MkDir(path)
    \/ \E path \in SubmissionDirs : RmDir(path)
    \/ \E root \in CoreRoots : \E content \in MarksContents(root) :
           WriteMarks(root, content)

SpecRoster == Init /\ [][NextRoster]_vars

\* A grade is written to the roster of a root.
UpdateMarks(root, submission_id, points, status) ==
    LET res == update_marks_csv(marks_csv[root], submission_id, points, status)
    IN  /\ marks_csv' = [marks_csv EXCEPT ![root] = res.file]
        /\ last' = [call |-> "update_marks_csv", root |-> root,
                    raised |-> res.raised, submission_id |-> submission_id,
                    points |-> points, status |-> status]
        /\ UNCHANGED <<db, dirs, unreadable, io, files, session_state>>

F1 == <<"F", "1">>
HeaderLine == RosterLine(Carl, Team_ZZ, <<"9">>, <<"SICK">>)

\* Rosters: an id on two data rows; a blank line and a row of two fields
\* before the full row of an id; a row of five fields.
MarksRosters ==
    { NoFile, EmptyFile, File(<<HeaderLine>>),
      File(<<HeaderLine,
             RosterLine(ABC123, Team_AB, <<>>, <<"SUBMITTED">>),
             RosterLine(F1, Team_ZZ, <<"1">>, <<"SICK">>),
             RosterLine(ABC123, Team_ZZ, <<"1">>, <<"SICK">>)>>),
      File(<<HeaderLine, <<>>, <<F1, Team_ZZ>>,
             RosterLine(ABC123, Team_AB, <<>>, <<"SUBMITTED">>),
             RosterLine(F1, Team_ZZ, <<"1">>, <<"SICK">>)>>),
      File(<<HeaderLine, <<F1, Team_ZZ, Sheet_1, exercise_1, <<"1">>>>,
             RosterLine(ABC123, Team_AB, <<>>, <<"SUBMITTED">>) \o <<<<"x">>>>>>) }

MarkIds == {ABC123, F1, Carl}
MarkPoints == {0, 5, 700, 750, 1000}
MarkStatuses == {"FINAL_MARK", "PROVISIONAL_MARK"}

NextMarks ==
    \/ \E content \in MarksRosters : WriteMarks(RootA1, content)
    \/ \E submission_id \in MarkIds, points \in MarkPoints, status \in MarkStatuses :
           UpdateMarks(RootA1, submission_id, points, status)

SpecMarks == Init /\ [][NextMarks]_vars

\* UPDATE submissions SET status = ? WHERE id = ?, committed
UpdateStatus(d, submission_id, status) ==
    LET submission_data == {s \in d.submissions : s.id = submission_id}
    IN  IF status \notin AllowedStatuses /\ submission_data # {}
        THEN [raised |-> "IntegrityError", base |-> d, tx |-> d]
        ELSE [raised |-> NoError, base |-> d,
              tx |-> [d EXCEPT !.submissions =
                        (@ \ submission_data) \cup
                        {[s EXCEPT !.status = status] : s \in submission_data}]]

\* group_name.split("_")[-1] if "_" in group_name else group_name
submission_identifier(group_name) ==
    LET parts == Split(group_name, "_")
    IN  IF "_" \in {group_name[i] : i \in 1..Len(group_name)}
        THEN parts[Len(parts)] ELSE group_name

feedback_pdf == <<"feedback.pdf">>

\* The button "Feedback PDF generieren" of the grading page, for the
\* submission the page shows: the Feedback is saved, the status is updated and
\* committed, and then the roster is updated; what update_marks_csv raises
\* is caught and shown as a warning.
FinalizeKorrektur(current_root, submission_id, points, markdown, status) ==
    \E sub \in db.submissions :
        /\ sub.id = submission_id
        /\ LET saved == save_feedback(db, submission_id, points, markdown, feedback_pdf)
               d1 == Persisted(saved)
               set == UpdateStatus(d1, submission_id, status)
               d2 == Persisted(set)
               csv == update_marks_csv(marks_csv[current_root],
                                       submission_identifier(sub.group_name),
                                       points, status)
           IN  IF saved.raised # NoError
               THEN /\ db' = d1
                    /\ last' = [call |-> "finalize", root |-> current_root,
                                raised |-> saved.raised, csv_raised |-> NoError,
                                submission_id |-> submission_id,
                                identifier |-> submission_identifier(sub.group_name),
                                points |-> points, status |-> status]
                    /\ UNCHANGED marks_csv
               ELSE /\ db' = d2
                    /\ marks_csv' = [marks_csv EXCEPT ![current_root] = csv.file]
                    /\ last' = [call |-> "finalize", root |-> current_root,
                                raised |-> set.raised, csv_raised |-> csv.raised,
                                submission_id |-> submission_id,
                                identifier |-> submission_identifier(sub.group_name),
                                points |-> points, status |-> status]
        /\ UNCHANGED <<dirs, unreadable, io, files, session_state>>

\* The button "Korrigiert" of the main page: the roster is updated first;
\* FileNotFoundError and ValueError are shown and end the action; otherwise
\* the Feedback is saved.
FinalizeMain(current_root, submission_id, points, markdown) ==
    \E sub \in db.submissions :
        /\ sub.id = submission_id
        /\ LET csv == update_marks_csv(marks_csv[current_root],
                                       submission_identifier(sub.group_name),
                                       points, "FINAL_MARK")
               saved == save_feedback(db, submission_id, points, markdown, None)
           IN  /\ marks_csv' = [marks_csv EXCEPT ![current_root] = csv.file]
               /\ db' = IF csv.raised = NoError THEN Persisted(saved) ELSE db
               /\ last' = [call |-> "finalize", root |-> current_root,
                           raised |-> IF csv.raised = NoError THEN saved.raised
                                      ELSE IF csv.raised = "IndexError" THEN csv.raised
                                      ELSE NoError,
                           csv_raised |-> csv.raised,
                           submission_id |-> submission_id,
                           identifier |-> submission_identifier(sub.group_name),
                           points |-> points, status |-> "FINAL_MARK"]
        /\ UNCHANGED <<dirs, unreadable, io, files, session_state>>

\* the roster the example of the specification gives, after a first line
ExampleRoster ==
    File(<<HeaderLine, RosterLine(ABC123, Team_AB, <<>>, <<"SUBMITTED">>)>>)

FinalizePoints == {750}
FinalizeStatuses == {"FINAL_MARK", "PROVISIONAL_MARK"}

NextFinalize ==
    \/ Scan(RootA1)
    \/ \E path \in SubmissionDirs : MkDir(path)
    \/ \E content \in {NoFile, ExampleRoster} : WriteMarks(RootA1, content)
    \/ \E submission_id \in 1..MaxSeq, points \in FinalizePoints, status \in FinalizeStatuses :
           FinalizeKorrektur(RootA1, submission_id, points, "Updated", status)
    \/ \E submission_id \in 1..MaxSeq, points \in FinalizePoints :
           FinalizeMain(RootA1, submission_id, points, "Updated")

SpecFinalize == Init /\ [][NextFinalize]_vars

\* The grading page applies the selected error codes to the points and the
\* feedback text it holds.
ApplyErrorCodes ==
    /\ io.fn = "apply_error_codes"
    /\ ~io.done
    /\ io' = [io EXCEPT !.done = TRUE,
                        !.result = apply_error_codes(io.selected, io.error_codes,
                                                     io.points, io.markdown)]
    /\ UNCHANGED <<db, dirs, unreadable, marks_csv, last, files, session_state>>

E1 == ErrorCode(<<"E", "1">>, <<"S", "y", "n">>, 5, <<"f", "i", "x">>)
E2 == ErrorCode(<<"E", "2">>, <<"S", "t", "i", "l">>, 50, None)
E3 == ErrorCode(<<"E", "3">>, <<"T", "e", "s", "t">>, 15, <<>>)
\* a bonus: a negative deduction
B1 == ErrorCode(<<"B", "1">>, <<"B", "o", "n">>, 0 - 30, <<"o", "k">>)
\* the code E1 of another sheet
E1_Other == ErrorCode(<<"E", "1">>, <<"S", "e", "m">>, 20, <<"a", "l", "t">>)
\* the label of a code that was deleted after the page was drawn
StaleLabel == <<"Z", "9", ":", " ", "w", "e", "g">>
\* a label without a description, padded
BareLabel == <<" ", "E", "2", " ">>

Catalogs == {<<>>, <<E1, E2, E3>>, <<E1, E2, E3, B1>>, <<E1, E2, E3, E1_Other>>}
Labels == {as_option(E1), as_option(E2), as_option(E3), as_option(B1), StaleLabel, BareLabel}
PointValues == {0, 20, 70}
Markdowns == {<<>>, <<"o", "k">>}

NoResult == [raised |-> "pending"]

\* the page holds a selection, the catalogue, the points and the text
InitComposer ==
    /\ db = EmptyDb
    /\ dirs = {}
    /\ unreadable = {}
    /\ marks_csv = [r \in Roots |-> NoFile]
    /\ last = [call |-> "init_db", root |-> NoRoot, raised |-> NoError]
    /\ \E selected_labels \in SeqsUpTo(Labels, MaxSelected), error_codes \in Catalogs, current_points \in PointValues, current_markdown \in Markdowns :
           io = [fn |-> "apply_error_codes", done |-> FALSE,
                 selected |-> selected_labels, error_codes |-> error_codes,
                 points |-> current_points, markdown |-> current_markdown,
                 result |-> NoResult]
    /\ files = {}
    /\ session_state = EmptyDict

NextComposer == ApplyErrorCodes

SpecComposer == InitComposer /\ [][NextComposer]_vars

\* A variant of the form without the check of the required fields: what C21
\* tells apart from the code.
add_error_code_form_Unchecked(d, selected_sheet_id, new_code, new_desc, new_abzug, new_komm) ==
    LET res == add_error_code(d, selected_sheet_id, Strip(new_code),
                              Strip(new_desc), new_abzug, Strip(new_komm))
    IN  [rejected |-> FALSE, raised |-> res.raised, base |-> d, tx |-> res.tx]

\* The form "add_error_code_form" of the error-code page: the texts are
\* stripped; without a code or a description the form shows an error and
\* calls nothing; what the store raises is caught and shown.
add_error_code_form(d, selected_sheet_id, new_code, new_desc, new_abzug, new_komm) ==
    LET res == add_error_code(d, selected_sheet_id, Strip(new_code),
                              Strip(new_desc), new_abzug, Strip(new_komm))
    IN  IF Strip(new_code) = <<>> \/ Strip(new_desc) = <<>>
        THEN [rejected |-> TRUE, raised |-> NoError, base |-> d, tx |-> d]
        ELSE [rejected |-> FALSE, raised |-> res.raised, base |-> d, tx |-> res.tx]

\* The form is submitted for the sheet selected.
AddErrorCode(selected_sheet_id, ec) ==
    LET res == add_error_code_form(db, selected_sheet_id, ec.code, ec.description,
                                   ec.deduction, ec.comment)
    IN  /\ selected_sheet_id \in {sh.id : sh \in db.sheets}
        /\ res.tx.sqlite_sequence.error_codes <= MaxErrorCodeSeq
        /\ db' = Persisted(res)
        /\ last' = [call |-> "add_error_code", root |-> NoRoot,
                    raised |-> res.raised, rejected |-> res.rejected,
                    code |-> ec.code, description |-> ec.description,
                    sheet_id |-> selected_sheet_id]
        /\ UNCHANGED <<dirs, unreadable, marks_csv, io, files, session_state>>

\* The button "Hinzufügen" of the grading page: with a code and a
\* description it calls add_error_code with four arguments, which raises
\* TypeError before the store is opened; otherwise it shows an error.
AddErrorCodeKorrektur(ec) ==
    /\ last' = [call |-> "add_error_code", root |-> NoRoot,
                raised |-> IF ec.code # <<>> /\ ec.description # <<>>
                           THEN "TypeError" ELSE NoError,
                rejected |-> ~(ec.code # <<>> /\ ec.description # <<>>),
                code |-> ec.code, description |-> ec.description]
    /\ UNCHANGED <<db, dirs, unreadable, marks_csv, io, files, session_state>>

\* The button "Löschen {code}" of the grading page, pressed while the page
\* works on the sheet of current_root: one button per row of
\* get_error_codes(), which calls delete_error_code(code).
DeleteErrorCodeButton(current_sheet_id, code) ==
    /\ current_sheet_id \in {sh.id : sh \in db.sheets}
    /\ \E e \in db.error_codes : e.code = code
    /\ db' = delete_error_code(db, code, {})
    /\ last' = [call |-> "delete_error_code", root |-> NoRoot,
                raised |-> NoError, code |-> code,
                sheet_id |-> current_sheet_id, passed |-> {}]
    /\ UNCHANGED <<dirs, unreadable, marks_csv, io, files, session_state>>

\* delete_error_code called with the sheet id
DeleteErrorCode(code, sheet_id) ==
    /\ db' = delete_error_code(db, code, {sheet_id})
    /\ last' = [call |-> "delete_error_code", root |-> NoRoot,
                raised |-> NoError, code |-> code,
                sheet_id |-> sheet_id, passed |-> {sheet_id}]
    /\ UNCHANGED <<dirs, unreadable, marks_csv, io, files, session_state>>

NewErrorCodes == {E1, E1_Other, E2}
\* what the form is given when a required field is left empty or blank
IncompleteErrorCodes ==
    { ErrorCode(<<>>, <<"S", "y", "n">>, 5, <<>>),
      ErrorCode(<<" ">>, <<"S", "y", "n">>, 5, <<>>),
      ErrorCode(<<"E", "9">>, <<>>, 5, <<>>) }
FormInputs ==
    {[ec EXCEPT !.comment = IF @ = None THEN <<>> ELSE @] : ec \in NewErrorCodes}
        \cup IncompleteErrorCodes

NextErrorCodes ==
    \/ \E root \in SheetRoots : Scan(root)
    \/ \E sheet_id \in SheetIds, ec \in FormInputs : AddErrorCode(sheet_id, ec)
    \/ \E ec \in FormInputs : AddErrorCodeKorrektur(ec)
    \/ \E sheet_id \in SheetIds, ec \in NewErrorCodes : DeleteErrorCodeButton(sheet_id, ec.code)
    \/ \E sheet_id \in SheetIds, ec \in NewErrorCodes : DeleteErrorCode(ec.code, sheet_id)

SpecErrorCodes == Init /\ [][NextErrorCodes]_vars

----------------------------------------------------------------------------
(* What the claims speak of *)

ScanDone(root) ==
    last.call = "scan" /\ last.root = root /\ last.raised = NoError

\* The Submission rows of the Sheet a root is keyed to.
RowsOfSheet(d, root) ==
    {s \in d.submissions :
        \E sh \in d.sheets : sh.name = BaseName(root) /\ sh.id = s.sheet_id}

Under(path, root) ==
    Len(path) > Len(root) /\ SubSeq(path, 1, Len(root)) = root

\* The submission directories on disk below root: the immediate
\* sub-directories of its exercise directories.
OnDisk(root) ==
    {p \in StaticDirs \cup dirs :
        /\ Len(p) = Len(root) + 2
        /\ Under(p, root)
        /\ IsDir(SubSeq(p, 1, Len(root) + 1))
        /\ IsExerciseName(p[Len(root) + 1])}

AlicePath == Join(Join(RootA1, exercise_1), Alice_Bob_ABC123)
CarlPath == Join(Join(RootA1, Excercise_2), Carl)

FeedbackOf(d, id) == {f \in d.feedback : f.submission_id = id}

----------------------------------------------------------------------------
(* C1 *)

\* C1: idempotent rescan. In every state left by a successful pass over a
\* root, a second pass over the same root with the disk as it is, whatever
\* order the directories are listed in, succeeds and leaves every table and
\* every id counter as it is: same rows, same ids, same statuses, no row
\* deleted and inserted again.
C1_IdempotentRescan ==
    \A root \in Roots :
        ScanDone(root) =>
            \A order \in Listings(root) :
                LET res == scan_and_insert_submissions(db, root, order)
                IN  /\ res.raised = NoError
                    /\ res.tx.submissions = db.submissions
                    /\ res.tx.sqlite_sequence = db.sqlite_sequence
                    /\ res.tx = db

\* A pass has just run over a sheet that holds two submissions, one of them
\* graded.
C1_Witness ==
    /\ ScanDone(RootA1)
    /\ Cardinality(RowsOfSheet(db, RootA1)) = 2
    /\ \E s \in RowsOfSheet(db, RootA1) : s.status = "FINAL_MARK"

----------------------------------------------------------------------------
(* C2 *)

\* C2: progress preservation. No step takes away or renumbers the row of a
\* submission whose directory is on disk, and its status changes only in a
\* successful save_feedback_with_submission; a pass in particular leaves id
\* and status of every such submission as they are.
C2_ProgressPreserved ==
    [][ \A s \in db.submissions :
            IsDir(s.path) =>
                \E t \in db'.submissions :
                    /\ t.id = s.id
                    /\ t.path = s.path
                    /\ \/ t.status = s.status
                       \/ last'.call = "save" /\ last'.raised = NoError ]_vars

----------------------------------------------------------------------------
(* C3 *)

\* C3: obsolete pruning cascades. After a completed pass no Feedback row
\* refers to a Submission id that is not in the submissions table.
C3_PruneCascades ==
    (last.call = "scan" /\ last.raised = NoError) =>
        \A f \in db.feedback : \E s \in db.submissions : s.id = f.submission_id

----------------------------------------------------------------------------
(* C4 *)

\* C4: exact synchronization. After a successful pass over a root, the paths
\* of the Submission rows of the root's Sheet are exactly the submission
\* directories on disk below that root.
C4_ExactSync ==
    \A root \in Roots :
        ScanDone(root) =>
            {s.path : s \in RowsOfSheet(db, root)} = OnDisk(root)

\* A pass has pruned: one directory of the sheet is gone and so is its row,
\* the other is there with its row.
C4_Witness ==
    /\ ScanDone(RootA1)
    /\ AlicePath \notin dirs
    /\ CarlPath \in dirs
    /\ {s.path : s \in db.submissions} = {CarlPath}
    /\ db.sqlite_sequence.submissions = 2

----------------------------------------------------------------------------
(* C5 *)

\* C5: disappear and reappear. A pass that runs while a submission's path is
\* on disk (again) keeps its row with the same id and status and leaves its
\* Feedback row untouched; a row goes only in a pass that runs while its path
\* is not on disk.
C5_DeletedOnlyWhenAbsent ==
    [][ last'.call = "scan" =>
          \A s \in db.submissions :
              /\ (\A t \in db'.submissions : t.id # s.id) => ~IsDir(s.path)
              /\ IsDir(s.path) =>
                    /\ \E t \in db'.submissions :
                           t.id = s.id /\ t.path = s.path /\ t.status = s.status
                    /\ FeedbackOf(db', s.id) = FeedbackOf(db, s.id) ]_vars

----------------------------------------------------------------------------
(* C6 *)

\* C6: Reconciler atomicity. A pass that raises, wherever it stops, leaves
\* the sheets, exercises, submissions and feedback tables and the id counters
\* exactly as they were before it.
C6_PassAtomic ==
    [][ (last'.call = "scan" /\ last'.raised # NoError) => db' = db ]_vars

\* A pass has just failed on an unreadable exercise directory after it had
\* written a Sheet, an Exercise and a Submission row: run again from here it
\* writes them again before it fails.
C6_Witness ==
    /\ last.call = "scan"
    /\ last.raised = "PermissionError"
    /\ \E order \in Listings(last.root) :
           LET res == scan_and_insert_submissions(db, last.root, order)
           IN  /\ res.raised = "PermissionError"
               /\ res.tx.sheets # db.sheets
               /\ res.tx.exercises # db.exercises
               /\ res.tx.submissions # db.submissions

----------------------------------------------------------------------------
(* C7 *)

\* The marks.csv whose rows for ABC123 carry points and the statuses SICK and
\* FINAL_MARK.
IsGradedRoster(file) ==
    /\ file.exists
    /\ \E i \in 2..Len(file.lines) :
           file.lines[i][1] = ABC123 /\ file.lines[i][6] = <<"FINAL_MARK">>

----------------------------------------------------------------------------
(* C8 *)

\* The token after the last underscore of a name, the whole name if it has
\* none.
TokenAfterLastUnderscore(name) ==
    LET at == {i \in 1..Len(name) : name[i] = "_"}
    IN  IF at = {} THEN name ELSE SubSeq(name, Max(at) + 1, Len(name))

\* The display name the roster of root gives a directory name: the group of
\* the last data row (the first line is the header) whose id is the
\* directory's token, the directory name if there is no such row or no file.
RosterName(root, name) ==
    LET file == marks_csv[root]
        hits == {i \in 2..Len(file.lines) :
                    file.lines[i][1] = TokenAfterLastUnderscore(name)}
    IN  IF file.exists /\ hits # {} THEN file.lines[Max(hits)][2] ELSE name

\* C8: roster mapping and fallback. After a successful pass over a root every
\* submission directory below it has a row, and every row below it has the
\* directory's base name as group_name and the roster's name for it as
\* submitter; without a marks.csv every submitter is the directory name.
C8_RosterMapping ==
    \A root \in Roots :
        ScanDone(root) =>
            /\ OnDisk(root) \subseteq {s.path : s \in db.submissions}
            /\ \A s \in db.submissions :
                   Under(s.path, root) =>
                       /\ s.group_name = BaseName(s.path)
                       /\ s.submitter = RosterName(root, BaseName(s.path))
                       /\ ~marks_csv[root].exists => s.submitter = BaseName(s.path)

\* A pass has named one submission from the roster and fallen back to the
\* directory name for the other, whose id only the header line carries.
C8_Witness ==
    /\ ScanDone(RootA1)
    /\ marks_csv[RootA1].exists
    /\ \E s \in db.submissions : s.path = AlicePath /\ s.submitter = Team_AB
    /\ \E s \in db.submissions : s.path = CarlPath /\ s.submitter = Carl

----------------------------------------------------------------------------
(* C9 *)

\* C9: upsert feedback. No two Feedback rows share a submission id; and from
\* every reachable state a successful save for a submission leaves exactly
\* one Feedback row for it, holding the points, markdown and pdf_path of that
\* call, which get_feedback returns, and leaves the other Feedback rows alone.
C9_UpsertFeedback ==
    /\ \A f, g \in db.feedback : f.submission_id = g.submission_id => f = g
    /\ \A id \in 1..MaxSeq, args \in Saves :
           LET res == save_feedback_with_submission(
                          db, id, args.status, args.points,
                          args.markdown_content, args.pdf_path)
               rows == FeedbackOf(res.tx, id)
           IN  res.raised = NoError =>
                   /\ Cardinality(rows) = 1
                   /\ \A f \in rows :
                          /\ f.points = args.points
                          /\ f.markdown_content = args.markdown_content
                          /\ f.pdf_path = args.pdf_path
                   /\ get_feedback(res.tx, id) =
                          <<args.points, args.markdown_content>>
                   /\ res.tx.feedback \ rows = db.feedback \ FeedbackOf(db, id)

\* A save has just succeeded, and the submission's Feedback row is there for
\* the next save, with other values, to overwrite.
C9_Witness ==
    /\ last.call = "save"
    /\ last.raised = NoError
    /\ \E s \in db.submissions, args \in Saves :
           /\ args.status \in AllowedStatuses
           /\ \E f \in FeedbackOf(db, s.id) :
                  f.markdown_content # args.markdown_content

----------------------------------------------------------------------------
(* C10 *)

\* C10: atomic grade save. A save that raises (unknown submission id, or a
\* status the CHECK constraint rejects after the Feedback write) leaves the
\* whole database as it was; and in every state each Feedback row of a
\* Submission holds the values of a save whose status is the Submission's.
C10_SaveAtomic ==
    /\ [][ (last'.call = "save" /\ last'.raised # NoError) => db' = db ]_vars
    /\ [](\A f \in db.feedback, s \in db.submissions :
              f.submission_id = s.id =>
                  \E args \in Saves :
                      /\ args.status = s.status
                      /\ args.points = f.points
                      /\ args.markdown_content = f.markdown_content
                      /\ args.pdf_path = f.pdf_path)

\* A save with a status outside the six has just been rejected after its
\* Feedback write was issued.
C10_Witness ==
    /\ last.call = "save"
    /\ last.raised = "IntegrityError"
    /\ \E id \in 1..MaxSeq, args \in Saves :
           LET res == save_feedback_with_submission(
                          db, id, args.status, args.points,
                          args.markdown_content, args.pdf_path)
           IN  res.raised = "IntegrityError" /\ res.tx.feedback # db.feedback

----------------------------------------------------------------------------
(* C11 *)

\* The ids of the submissions whose exercise has the given code, of all
\* submissions that have an exercise when no code is given.
Listed(d, exercise_code) ==
    {s.id : s \in {t \in d.submissions :
                      \E e \in d.exercises :
                          /\ e.id = t.exercise_id
                          /\ exercise_code # None => e.code = exercise_code}}

\* The number of ids of S below x: the index of x in S in ascending order.
Rank(S, x) == Cardinality({y \in S : y < x})

Clamp(x, lo, hi) == IF x < lo THEN lo ELSE IF x > hi THEN hi ELSE x

\* C11: step clamps, never wraps. Whenever the stored id is in the filtered
\* list, at index i of its n ids in ascending order, a step by delta returns
\* the id at index min(max(i + delta, 0), n - 1) and raises nothing; a further
\* step forward from the last id returns the last id, a further step backward
\* from the first returns the first.
C11_StepClamps ==
    \A step \in Steps, exercise_code \in Filters :
        LET S == Listed(db, exercise_code)
            res == step_review_current_submission(db, step, exercise_code)
            again == step_review_current_submission(
                         Persisted(res), step, exercise_code)
        IN  \A x \in get_review_current_submission_id(db) \cap S :
                /\ res.raised = NoError
                /\ \A y \in res.value :
                       /\ y \in S
                       /\ Rank(S, y) =
                              Clamp(Rank(S, x) + step, 0, Cardinality(S) - 1)
                /\ res.value # {}
                /\ (step > 0 /\ res.value = {Max(S)}) => again.value = {Max(S)}
                /\ (step < 0 /\ \A y \in S : x <= y) => again.value = {x}

\* A step has just stored the last of three ids.
C11_Witness ==
    /\ last.call = "step"
    /\ last.raised = NoError
    /\ Cardinality(Listed(db, None)) = 3
    /\ get_review_current_submission_id(db) = {Max(Listed(db, None))}

----------------------------------------------------------------------------
(* C12 *)

\* C12: the step result is valid and stored. Whatever is stored as the review
\* position (nothing, a text that is no number, an id outside the filter, the
\* id of a pruned submission), a step over a non-empty filtered list returns
\* one of its ids and stores exactly that id, which
\* get_review_current_submission_id then returns; over an empty filtered list
\* it raises ValueError and the stored position stays as it is.
C12_StepValidAndStored ==
    /\ [](\A step \in Steps, exercise_code \in Filters :
              LET S == Listed(db, exercise_code)
                  res == step_review_current_submission(db, step, exercise_code)
              IN  IF S # {}
                  THEN /\ res.raised = NoError
                       /\ \E y \in S : res.value = {y}
                       /\ get_review_current_submission_id(Persisted(res))
                              = res.value
                  ELSE /\ res.raised = "ValueError"
                       /\ Persisted(res) = db)
    /\ [][ last'.call = "step" =>
             IF last'.raised = NoError
             THEN \E y \in Listed(db, None) :
                      get_review_current_submission_id(db') = {y}
             ELSE db' = db ]_vars

\* A step has just stored a valid id although the position it found was the
\* id of a submission pruned since, or no number at all: the state holds a
\* stored id of the second exercise while an earlier id is gone.
C12_Witness ==
    /\ last.call = "step"
    /\ last.raised = NoError
    /\ get_review_current_submission_id(db) \subseteq Listed(db, Excercise_2)
    /\ get_review_current_submission_id(db) # {}
    /\ db.sqlite_sequence.submissions > Cardinality(db.submissions)

----------------------------------------------------------------------------
(* C13 *)

\* C13: get_submissions returns its rows in strictly ascending id order, and
\* with an exercise code exactly the rows of the unfiltered result that carry
\* this code, in the same relative order.
C13_SubmissionsOrdered ==
    \A exercise_code \in Filters :
        LET all == get_submissions(db, None)
            rows == get_submissions(db, exercise_code)
            HasCode(r) == r[5] = exercise_code
        IN  /\ \A i, j \in 1..Len(rows) : i < j => rows[i][1] < rows[j][1]
            /\ exercise_code # None => rows = SelectSeq(all, HasCode)

\* Three submissions are listed, the first and the last of them under
\* exercise-1, the one between them under another exercise.
C13_Witness ==
    /\ Len(get_submissions(db, None)) = 3
    /\ Len(get_submissions(db, exercise_1)) = 2
    /\ get_submissions(db, None)[2][5] = Excercise_2

----------------------------------------------------------------------------
(* Feedback Composer: points *)

Applied == io.fn = "apply_error_codes" /\ io.done

\* the code a label names
CodeOf(label) == Strip(BeforeFirst(label, ":"))

Catalogued(error_codes, label) ==
    \E i \in 1..Len(error_codes) : error_codes[i].code = CodeOf(label)

\* the entry a label selects: of several entries with one code, the last
Entry(error_codes, label) ==
    error_codes[Max({i \in 1..Len(error_codes) : error_codes[i].code = CodeOf(label)})]

RECURSIVE ClampedFold(_, _, _)
ClampedFold(labels, error_codes, total) ==
    IF labels = <<>> THEN total
    ELSE ClampedFold(Tail(labels), error_codes,
                     IF Catalogued(error_codes, Head(labels))
                     THEN Max({0, total - Entry(error_codes, Head(labels)).deduction})
                     ELSE total)

\* C14: deduction clamp. The points apply_error_codes returns are the fold,
\* over the selected labels in their order, of total := max(0, total -
\* deduction) for each known code; when the points given and the deductions
\* of the selected codes are not negative, the result lies between 0 and the
\* points given.
C14_DeductionClamp ==
    Applied =>
        /\ io.result.points = ClampedFold(io.selected, io.error_codes, io.points)
        /\ (/\ io.points >= 0
            /\ \A i \in 1..Len(io.selected) :
                   Catalogued(io.error_codes, io.selected[i])
                       => Entry(io.error_codes, io.selected[i]).deduction >= 0)
               => io.result.points \in 0..io.points

\* 2.0 points and a selected deduction of 5.0 give 0.0
C14_Witness ==
    /\ Applied
    /\ io.points = 20
    /\ io.selected = <<as_option(E2)>>
    /\ io.error_codes = <<E1, E2, E3>>
    /\ io.result.points = 0

----------------------------------------------------------------------------
(* Feedback Composer: unknown codes *)

IsKnownIn(label) == Catalogued(io.error_codes, label)

\* C15: unknown codes are skipped. apply_error_codes returns what it returns
\* for the selection without the labels whose code is not among the error
\* codes given; it raises nothing, and a selection of unknown codes only
\* returns the points and the markdown given.
C15_UnknownSkipped ==
    Applied =>
        /\ io.result = apply_error_codes(SelectSeq(io.selected, IsKnownIn),
                                         io.error_codes, io.points, io.markdown)
        /\ io.result.raised = NoError
        /\ (\A i \in 1..Len(io.selected) : ~IsKnownIn(io.selected[i]))
               => /\ io.result.points = io.points
                  /\ io.result.markdown = io.markdown

\* a stale label before a known one: only the known one counts
C15_Witness ==
    /\ Applied
    /\ io.selected = <<StaleLabel, as_option(E1)>>
    /\ io.error_codes = <<E1, E2, E3>>
    /\ io.points = 20
    /\ io.result.points = 15
    /\ io.result.raised = NoError

----------------------------------------------------------------------------
(* Feedback Composer: markdown *)

\* the deductions of the catalogue as the block shows them
DeductionText(deduction) ==
    CASE deduction = 5 -> <<"0", ".", "5">>
      [] deduction = 50 -> <<"5">>
      [] deduction = 15 -> <<"1", ".", "5">>
      [] deduction = 20 -> <<"2">>
      [] deduction = 0 - 30 -> <<"-", "3">>

\* '### {description}: -{deduction}P', a newline, the comment
Block(ec) ==
    <<"#", "#", "#", " ">> \o ec.description \o <<":", " ", "-">>
        \o DeductionText(ec.deduction) \o <<"P">> \o <<"\n">> \o ec.comment

\* what sets a block off from the text before it: a blank line and a space
Separator == <<"\n", "\n", " ">>

HasComment(ec) == ec.comment # None /\ Len(ec.comment) > 0

RECURSIVE Blocks(_, _)
Blocks(labels, error_codes) ==
    IF labels = <<>> THEN <<>>
    ELSE (IF /\ Catalogued(error_codes, Head(labels))
             /\ HasComment(Entry(error_codes, Head(labels)))
          THEN Separator \o Block(Entry(error_codes, Head(labels)))
          ELSE <<>>)
         \o Blocks(Tail(labels), error_codes)

\* C16: feedback markdown composition. The markdown apply_error_codes returns
\* is the markdown given, followed, for each selected known code with a
\* non-empty comment and in the order of the selection, by a separator and
\* the block '### {description}: -{deduction}P', a newline and the comment;
\* codes whose comment is empty or missing add nothing.
C16_MarkdownComposition ==
    Applied =>
        io.result.markdown = io.markdown \o Blocks(io.selected, io.error_codes)

\* a code with a comment, one with an empty and one with a missing comment
C16_Witness ==
    /\ Applied
    /\ io.markdown = <<"o", "k">>
    /\ io.error_codes = <<E1, E2, E3>>
    /\ io.selected = <<as_option(E3), as_option(E1)>>
    /\ io.result.markdown = <<"o", "k", "\n", "\n", " ", "#", "#", "#", " ", "S", "y", "n", ":", " ", "-", "0", ".", "5", "P", "\n", "f", "i", "x">>

----------------------------------------------------------------------------
(* Marks-CSV Writer: the rewritten row *)

\* the data rows of a file that carry an id in their first column
DataRowsOf(file, id) ==
    {i \in 1..Len(file.lines) :
        i > 1 /\ Len(file.lines[i]) > 0 /\ Field(file.lines[i], 1) = id}

FirstOf(S) == CHOOSE i \in S : \A j \in S : i <= j

\* the number of hundredths a decimal string stands for
PointsValue(text) ==
    LET whole == BeforeFirst(text, ".")
        frac == SubSeq(text, Len(whole) + 2, Len(text))
    IN  DecimalValue(whole) * 100
          + (IF Len(frac) = 0 THEN 0
             ELSE IF Len(frac) = 1 THEN DigitValue(frac[1]) * 10
             ELSE DecimalValue(frac))

\* no zero and no point at the end of the decimals
ZeroStripped(text) ==
    /\ text # <<>>
    /\ ("." \in {text[i] : i \in 1..Len(text)}) => text[Len(text)] \notin {"0", "."}

----------------------------------------------------------------------------
(* Marks-CSV Writer: failures *)

\* C18: marks-CSV failures are loud and leave the file untouched.
\* update_marks_csv raises FileNotFoundError when marks.csv is absent and
\* ValueError when no row after the first line has the id in its first
\* column; whenever it raises, the file is as it was before the call, and an
\* absent file stays absent.
C18_MarksFailures ==
    [][last'.call = "update_marks_csv" =>
        LET root == last'.root
            before == marks_csv[root]
            hits == DataRowsOf(before, last'.submission_id)
        IN  /\ ~before.exists => last'.raised = "FileNotFoundError"
            /\ (before.exists /\ hits = {}) => last'.raised = "ValueError"
            /\ last'.raised # NoError => marks_csv' = marks_csv]_vars

\* the id stands in the first line only: ValueError, the file as written
C18_Witness ==
    /\ last.call = "update_marks_csv"
    /\ last.raised = "ValueError"
    /\ last.submission_id = Carl
    /\ marks_csv[RootA1] \in MarksRosters
    /\ Len(marks_csv[RootA1].lines) = 4

----------------------------------------------------------------------------
(* Finalizing a grade: the store and the roster *)

\* the store holds the grade of a submission
InStore(d, submission_id, points, status) ==
    /\ \E f \in FeedbackOf(d, submission_id) : f.points = points
    /\ \E s \in d.submissions : s.id = submission_id /\ s.status = status

\* the row of a submission in the roster holds the grade
InRoster(file, identifier, points, status) ==
    /\ file.exists
    /\ DataRowsOf(file, identifier) # {}
    /\ LET row == file.lines[FirstOf(DataRowsOf(file, identifier))]
       IN  /\ Field(row, 5) # None
           /\ PointsValue(Field(row, 5)) = points
           /\ Field(row, 6) = <<status>>

\* C19: the roster and the store stay consistent on finalize. After a
\* finalize action either the store (Feedback points, Submission status) and
\* the row of the submission in marks.csv (points, status) both hold the new
\* values, or neither the store nor the file was changed.
C19_FinalizeConsistent ==
    [][last'.call = "finalize" =>
        \/ /\ InStore(db', last'.submission_id, last'.points, last'.status)
           /\ InRoster(marks_csv'[last'.root], last'.identifier, last'.points, last'.status)
        \/ /\ db' = db
           /\ marks_csv' = marks_csv]_vars

----------------------------------------------------------------------------
(* Grading Store: deleting an error code *)

\* C20: error-code deletion is sheet-scoped. Deleting an error code while
\* working on a sheet removes no row but the row of that sheet with that
\* code, also when another sheet defines the same code.
C20_DeletionSheetScoped ==
    [][last'.call = "delete_error_code" =>
        \A e \in db.error_codes \ db'.error_codes :
            e.sheet_id = last'.sheet_id /\ e.code = last'.code]_vars

----------------------------------------------------------------------------
(* Grading Store: adding an error code *)

Missing(text) == text = None \/ Strip(text) = <<>>

----------------------------------------------------------------------------
(* Grading Store: error codes are unique in their sheet *)

Columns(e) == <<e.code, e.description, e.deduction, e.comment>>

Range(seq) == {seq[i] : i \in 1..Len(seq)}

\* C22: error codes are unique per (sheet_id, code). No two rows of
\* error_codes share sheet_id and code; adding a code its sheet already has
\* is rejected and leaves the table as it was, while two sheets may have the
\* same code; get_error_codes(sheet_id) returns the codes of that sheet and
\* no others.
C22_UniquePerSheet ==
    /\ [](/\ \A e1, e2 \in db.error_codes :
                (e1.sheet_id = e2.sheet_id /\ e1.code = e2.code) => e1 = e2
           /\ \A sheet_id \in SheetIds :
                LET of_sheet == {e \in db.error_codes : e.sheet_id = sheet_id}
                    listed == get_error_codes(db, {sheet_id})
                IN  /\ Range(listed) = {Columns(e) : e \in of_sheet}
                    /\ Len(listed) = Cardinality(of_sheet))
    /\ [][(/\ last'.call = "add_error_code"
            /\ "sheet_id" \in DOMAIN last'
            /\ \E e \in db.error_codes :
                   e.sheet_id = last'.sheet_id /\ e.code = Strip(last'.code))
           => /\ last'.raised = "IntegrityError"
              /\ db' = db]_vars

\* two sheets have the code E1, and adding it to one of them again is
\* rejected
C22_Witness ==
    /\ last.call = "add_error_code"
    /\ last.raised = "IntegrityError"
    /\ \E e1, e2 \in db.error_codes :
           e1.code = last.code /\ e2.code = last.code /\ e1.sheet_id # e2.sheet_id

----------------------------------------------------------------------------
(* Grading Store: grader state *)

Defaults == {None, <<"A", "l", "l", "e">>}

OtherKeysKept(key) ==
    \A other \in StateKeys \ {key}, default \in Defaults :
        load_grader_state(db', other, default) = load_grader_state(db, other, default)

\* C23: grader-state round trip. After save_grader_state(k, v),
\* load_grader_state(k) returns v, whatever k held before; after
\* delete_grader_state(k), load_grader_state(k, d) returns d; either leaves
\* what load_grader_state returns for every other key as it was, and no
\* other operation changes the grader state.
C23_GraderStateRoundTrip ==
    [][/\ last'.call = "save_grader_state" =>
            /\ \A default \in Defaults :
                   load_grader_state(db', last'.key, default) = last'.value
            /\ OtherKeysKept(last'.key)
       /\ last'.call = "delete_grader_state" =>
            /\ \A default \in Defaults :
                   load_grader_state(db', last'.key, default) = default
            /\ OtherKeysKept(last'.key)
       /\ last'.call \notin {"save_grader_state", "delete_grader_state"} =>
            db'.grader_state = db.grader_state]_vars

\* a filter is stored while another key holds a value of its own
C23_Witness ==
    /\ last.call = "save_grader_state"
    /\ last.key = "exercise_filter"
    /\ last.value = exercise_1
    /\ load_grader_state(db, "exercise_filter", None) = exercise_1
    /\ load_grader_state(db, "current_submission_id", None) = <<"1">>


\* C24: a sheet never has more than one answer_sheets row; after a save
\* get_answer_sheet_path returns the path just saved, and after a delete it
\* returns None and the row is gone, whether or not the file the row named is
\* on the disk.
AnswerSaves == {"save_answer_sheet_path", "save_uploaded_answer_sheet"}
AnswerDeletes == {"delete_answer_sheet_path", "delete_answer_sheet"}
C24_OneAnswerSheet ==
    /\ [](\A r, o \in db.answer_sheets : r.sheet_id = o.sheet_id => r = o)
    /\ [][/\ (last'.call \in AnswerSaves /\ last'.raised = NoError) =>
                get_answer_sheet_path(db', last'.sheet_id) = last'.path
          /\ (last'.call \in AnswerDeletes /\ last'.raised = NoError) =>
                /\ get_answer_sheet_path(db', last'.sheet_id) = None
                /\ \A r \in db'.answer_sheets : r.sheet_id # last'.sheet_id
                /\ \A r \in db.answer_sheets :
                       r.sheet_id # last'.sheet_id => r \in db'.answer_sheets]_vars

\* The row of sheet 2 went by the store call while the row of sheet 1, the
\* first the table ever held, names another path than the file that was
\* uploaded for it.
C24_Witness ==
    /\ last.call = "delete_answer_sheet_path"
    /\ last.sheet_id = 2
    /\ db.sqlite_sequence.answer_sheets = 2
    /\ Join(RootA1, TARGET_FILENAME) \in files
    /\ \E r \in db.answer_sheets :
           /\ r.id = 1
           /\ r.sheet_id = 1
           /\ r.path_to_file = Join(RootA1, loesung_pdf)
           /\ ~Exists(r.path_to_file)

\* C25: resolve_answer_sheet_status does not fail on a stored path whose file
\* is not on the disk: it reports that path as configured_path, exists_on_disk
\* False and effective_path None; effective_path is only ever a file that is
\* on the disk; without a sheet context or a sheet id no path is configured.
Resolving == {"resolve_answer_sheet_status", "save_uploaded_answer_sheet", "delete_answer_sheet"}
StoredFor(d, sheet_context) ==
    get_answer_sheet_path(d, CHOOSE id \in UNION {c.sheet_id : c \in sheet_context} : TRUE)
C25_MissingFileTolerated ==
    [][(last'.call \in Resolving /\ io'.fn = "resolve_answer_sheet_status"
            /\ (last'.call = "resolve_answer_sheet_status" \/ last'.raised = NoError)) =>
          LET status == io'.status
              sheet_context == io'.sheet_context
              registered == UNION {c.sheet_id : c \in sheet_context} # {}
          IN  /\ last'.raised = NoError
              /\ ~registered => status.configured_path = None
              /\ effective_path(status) # None =>
                     /\ ExistsOn(files', effective_path(status))
                     /\ registered
                     /\ effective_path(status) = StoredFor(db', sheet_context)
              /\ (/\ registered
                  /\ StoredFor(db', sheet_context) \notin {None, <<>>}
                  /\ ~ExistsOn(files', StoredFor(db', sheet_context))) =>
                     /\ status.configured_path = StoredFor(db', sheet_context)
                     /\ status.exists_on_disk = FALSE
                     /\ effective_path(status) = None]_vars

\* The status of a sheet whose uploaded answer sheet was removed from the
\* disk behind the store's back.
C25_Witness ==
    /\ last.call = "resolve_answer_sheet_status"
    /\ io.fn = "resolve_answer_sheet_status"
    /\ io.status.configured_path = Join(RootA1, TARGET_FILENAME)
    /\ ~io.status.exists_on_disk
    /\ Join(RootA1, TARGET_FILENAME) \notin files
    /\ get_answer_sheet_path(db, 1) = Join(RootA1, TARGET_FILENAME)

\* C26: a setup of the toggle with has_answer_sheet False leaves the widget
\* value False and the stored preference other than "true", whatever was
\* stored and whether or not the widget had a value; with has_answer_sheet
\* True a stored preference gives a widget without a value its value; the
\* callback stores the widget value as "true" or "false".
ToggleSetups == {"setup_answer_sheet_toggle", "answer_sheet_checkbox_setup"}
C26_ToggleOffWithoutSheet ==
    [][/\ last'.call \in ToggleSetups =>
            LET key == widget_key(last'.key_prefix, last'.sheet_id)
                pref == storage_key(last'.key_prefix, last'.sheet_id)
            IN  /\ key \in DOMAIN session_state'
                /\ ~last'.has_answer_sheet =>
                       /\ session_state'[key] = FALSE
                       /\ load_grader_state(db', pref, None) # true
                /\ (/\ last'.has_answer_sheet
                    /\ key \notin DOMAIN session_state
                    /\ load_grader_state(db, pref, None) # None) =>
                       session_state'[key] = (Lower(load_grader_state(db, pref, None))
                                                \in {true, <<"1">>, <<"y", "e", "s">>})
       /\ last'.call = "on_change" =>
            LET key == widget_key(last'.key_prefix, last'.sheet_id)
                pref == storage_key(last'.key_prefix, last'.sheet_id)
            IN  load_grader_state(db', pref, None) =
                    IF session_state'[key] THEN true ELSE false]_vars

\* C27: find_candidate_roots returns a strictly ascending list, so one without
\* duplicates; a directory right under the parent is in it exactly if it can
\* be listed and holds marks.csv or an exercise directory; nothing else is in
\* it; a sub-directory that cannot be listed does not fail the call, and a
\* missing parent gives the empty list.
SubDirs(parent) ==
    {p \in StaticDirs \cup dirs : Len(p) = Len(parent) + 1 /\ SubSeq(p, 1, Len(parent)) = parent}
HasMarks(sub) == Exists(Join(sub, marks_csv_name))
HasExerciseDir(sub) ==
    \E p \in SubDirs(sub) : IsExerciseName(BaseName(p))
C27_CandidateRoots ==
    [][last'.call = "find_candidate_roots" =>
          LET result == io'.result
              parent == io'.base_dir
          IN  /\ \A i, j \in 1..Len(result) :
                     i < j => LessText(PathText(result[i]), PathText(result[j]))
              /\ (IsDir(parent) /\ parent \notin unreadable) =>
                     /\ last'.raised = NoError
                     /\ \A sub \in SubDirs(parent) :
                            (\E i \in 1..Len(result) : result[i] = sub) <=>
                                /\ sub \notin unreadable
                                /\ HasMarks(sub) \/ HasExerciseDir(sub)
              /\ \A i \in 1..Len(result) : result[i] \in SubDirs(parent)
              /\ ~Exists(parent) => (result = <<>> /\ last'.raised = NoError)]_vars

\* One sheet cannot be listed, the other holds only marks.csv, and a plain
\* file and a link to the sheet that cannot be listed lie next to them.
C27_Witness ==
    /\ last.call = "find_candidate_roots"
    /\ last.raised = NoError
    /\ io.base_dir = DataC
    /\ io.result = <<RootC2>>
    /\ RootC1 \in unreadable
    /\ Join(RootC1, Excercise_2) \in dirs
    /\ Join(RootC2, notes) \in dirs
    /\ Join(RootC2, marks_csv_name) \in files
    /\ {Join(DataC, README), LatestLink} \subseteq files

\* C28: a scan takes a child of the root for an exercise directory exactly if
\* it is a directory whose name, lower-cased, starts with exercise- or
\* excercise-; the exercise code is the name as it is on the disk; other
\* children and plain files give no exercise and no submission; the detector
\* of candidate roots goes by the same names.
ExercisePrefixes ==
    { <<"e", "x", "e", "r", "c", "i", "s", "e", "-">>,
      <<"e", "x", "c", "e", "r", "c", "i", "s", "e", "-">> }
NameRule(name) ==
    \E prefix \in ExercisePrefixes :
        /\ Len(name) >= Len(prefix)
        /\ \A i \in 1..Len(prefix) : LowerChar(name[i]) = prefix[i]
ExerciseChildren(root) ==
    {BaseName(p) : p \in {q \in SubDirs(root) : NameRule(BaseName(q))}}
C28_ExerciseDirectoryRule ==
    [][/\ (last'.call = "scan" /\ last'.raised = NoError) =>
            LET root == last'.root
                sheet_ids == {sh.id : sh \in {t \in db'.sheets : t.name = BaseName(root)}}
                codes == {e.code : e \in {x \in db'.exercises : x.sheet_id \in sheet_ids}}
            IN  /\ ExerciseChildren(root) \subseteq codes
                /\ \A e \in db'.exercises \ db.exercises :
                       e.sheet_id \in sheet_ids /\ e.code \in ExerciseChildren(root)
                /\ \A s \in db'.submissions \ db.submissions :
                       /\ Len(s.path) = Len(root) + 2
                       /\ SubSeq(s.path, 1, Len(root)) = root
                       /\ s.path[Len(root) + 1] \in ExerciseChildren(root)
                       /\ IsDir(s.path)
                       /\ \E e \in db'.exercises :
                              /\ e.id = s.exercise_id
                              /\ e.sheet_id \in sheet_ids
                              /\ e.code = s.path[Len(root) + 1]
       /\ (last'.call = "find_candidate_roots" /\ last'.raised = NoError) =>
            \A sub \in SubDirs(io'.base_dir) :
                (\E i \in 1..Len(io'.result) : io'.result[i] = sub) <=>
                    (HasMarks(sub) \/ ExerciseChildren(sub) # {})]_vars

\* All three roots were scanned: the misspelt directory of a/Sheet-1 is an
\* exercise under its own name, notes of b/Sheet-1 and the plain file
\* exercise-9 of a/Sheet-2 are none; the detector then finds the sheet with
\* the misspelt directory and not the one with the plain file.
C28_Witness ==
    /\ last.call = "find_candidate_roots"
    /\ io.result = <<RootC1>>
    /\ Join(RootC2, exercise_9) \in files
    /\ {e.code : e \in db.exercises} = {exercise_1, Excercise_2}
    /\ {s.path : s \in db.submissions} =
           { Join(Join(RootB1, exercise_1), Dora_),
             Join(Join(RootA2, exercise_1), Finn_F1) }

\* C29: generate_feedback_pdf does not raise. It returns (True, None) only
\* when the converter returned; it returns False with a message when the
\* output directory is missing, when the temporary markdown file cannot be
\* written, when the converter raises RuntimeError (tool not found if the
\* error names pandoc and "not found", else LaTeX engine error if it names
\* xelatex or latex, else conversion failed) and when it raises anything
\* else; after a failure of the converter the temporary .md file is gone.
Mentions(convert, words) ==
    \E w \in words : Contains(Lower(convert.message), w)
ReachedConverter ==
    /\ Exists(parent_of(io'.output_path))
    /\ io'.write_error = NoError
    /\ ~IsDir(with_suffix(io'.output_path, <<".", "m", "d">>))
MessageText == {m.text : m \in io'.error_msg}
RECURSIVE Picked(_, _, _)
Picked(pdfs, chosen, i) ==
    IF i > Len(pdfs) THEN <<>>
    ELSE (IF i \in chosen THEN <<Path(pdfs[i])>> ELSE <<>>) \o Picked(pdfs, chosen, i + 1)
Reasons ==
    { "Datei nicht gefunden", "Pfad ist keine Datei", "Datei besitzt keinen PDF-Header",
      "Datei konnte nicht gelesen werden: " }
IsPdfOnDisk(path) ==
    /\ path \in files
    /\ path \notin unreadable
    /\ Len(Content(path)) >= 4
    /\ SubSeq(Content(path), 1, 4) = <<"%", "P", "D", "F">>
C30_ClassificationPartition ==
    (io.fn = "classify_pdf_candidates" /\ io.done) =>
        LET valid == io.result.valid
            issues == io.result.issues
            good == {i \in 1..Len(io.pdfs) : IsPdfOnDisk(Path(io.pdfs[i]))}
        IN  /\ io.result.raised = NoError
            /\ valid = Picked(io.pdfs, good, 1)
            /\ [i \in 1..Len(issues) |-> issues[i][1]]
                   = Picked(io.pdfs, (1..Len(io.pdfs)) \ good, 1)
            /\ \A i \in 1..Len(issues) :
                   /\ issues[i][2] \in Reasons
                   /\ issues[i][2] = "Datei nicht gefunden" <=> ~Exists(issues[i][1])
                   /\ issues[i][2] = "Pfad ist keine Datei" <=> IsDir(issues[i][1])
                   /\ issues[i][2] = "Datei konnte nicht gelesen werden: " <=>
                          (issues[i][1] \in files /\ issues[i][1] \in unreadable)

\* A PDF that cannot be opened comes first; the PDF named by a path with a
\* dot segment and the missing file after it are classified all the same.
C30_Witness ==
    /\ io.fn = "classify_pdf_candidates"
    /\ io.done
    /\ io.pdfs = << Join(RootA1, locked_pdf), Join(Join(RootA1, <<".">>), valid_pdf),
                    Join(RootA1, missing_pdf) >>
    /\ io.result.valid = <<Join(RootA1, valid_pdf)>>
    /\ io.result.issues =
           << <<Join(RootA1, locked_pdf), "Datei konnte nicht gelesen werden: ">>,
              <<Join(RootA1, missing_pdf), "Datei nicht gefunden">> >>

-----------------------------------------------------------------------------
(* C31: the status domain *)

-----------------------------------------------------------------------------
(* C32: Sheets are created lazily and are unique by name *)

SheetsNamed(d, name) == {s \in d.sheets : s.name = name}

\* No two Sheet rows share a name or an id, and every Sheet row is named
\* after a root that was scanned.
C32_OneSheetPerName ==
    /\ \A s, t \in db.sheets : (s.name = t.name \/ s.id = t.id) => s = t
    /\ \A s \in db.sheets : \E root \in Roots : s.name = BaseName(root)

\* A step keeps every Sheet row as it is; only a pass that returns adds one,
\* for the base name of its root and only when the store had none of that
\* name; after a pass that returns the store has exactly one row of that name.
C32_SheetStep ==
    /\ db.sheets \subseteq db'.sheets
    /\ db'.sheets # db.sheets =>
           /\ last'.call = "scan"
           /\ last'.raised = NoError
           /\ SheetsNamed(db, BaseName(last'.root)) = {}
           /\ db'.sheets \ db.sheets = SheetsNamed(db', BaseName(last'.root))
    /\ (last'.call = "scan" /\ last'.raised = NoError) =>
           Cardinality(SheetsNamed(db', BaseName(last'.root))) = 1

\* C32: a Reconciler pass creates a Sheet row for the base name of its root
\* only if there is none; after any sequence of passes there is exactly one
\* Sheet row per scanned base name, whose id never changes, and a rescan adds
\* no Sheet row.
C32_LazyUniqueSheets ==
    [](C32_OneSheetPerName) /\ [][C32_SheetStep]_vars

\* Three roots with two base names were scanned, the third pass being a
\* rescan of a name: two Sheet rows, and the last pass over b/Sheet-1 found
\* the row of Sheet-1 that the pass over a/Sheet-1 made.
C32_Witness ==
    /\ last.call = "scan"
    /\ last.raised = NoError
    /\ last.root = RootB1
    /\ {s.name : s \in db.sheets} = {Sheet_1, Sheet_2}
    /\ Cardinality(db.sheets) = 2
    /\ \E e \in db.exercises : e.code = Excercise_2 /\ e.sheet_id = 1

-----------------------------------------------------------------------------
(* C33: Exercises are resolved or created, and their configuration survives
   rescans *)

\* No two Exercise rows share (sheet_id, code) or an id.
C33_OneExercisePerCode ==
    \A e, f \in db.exercises :
        ((e.sheet_id = f.sheet_id /\ e.code = f.code) \/ e.id = f.id) => e = f

\* A pass keeps every Exercise row as it is and gives each row it adds no
\* title and max_points 0; whatever step changes the max_points of a row is a
\* save_exercise_max_points, which changes nothing else of the row.
C33_ExerciseStep ==
    /\ last'.call = "scan" =>
           /\ db.exercises \subseteq db'.exercises
           /\ \A e \in db'.exercises \ db.exercises :
                  e.max_points = 0 /\ e.title = None
    /\ last'.call # "save_exercise_max_points" =>
           \A e \in db.exercises : \A f \in db'.exercises :
               f.id = e.id => f.max_points = e.max_points
    /\ last'.call = "save_exercise_max_points" =>
           /\ {[e EXCEPT !.max_points = 0] : e \in db'.exercises}
                  = {[e EXCEPT !.max_points = 0] : e \in db.exercises}

\* C33: a Reconciler pass never creates a second Exercise row for an existing
\* (sheet_id, code), never changes the id, title or max_points of an existing
\* Exercise, and inserts a newly discovered exercise code with max_points 0;
\* only save_exercise_max_points changes max_points.
C33_ExercisesSurviveRescans ==
    [](C33_OneExercisePerCode) /\ [][C33_ExerciseStep]_vars

\* A pass over a/Sheet-2 has just found the new directory Excercise-2 next to
\* exercise-1, whose points were set before: the new row has 0 points, the
\* old one kept its 25, and Excercise-2 of the first sheet kept its 10.
C33_Witness ==
    /\ last.call = "scan"
    /\ last.root = RootA2
    /\ \E e, f, g \in db.exercises :
           /\ e.sheet_id = f.sheet_id /\ g.sheet_id # e.sheet_id
           /\ e.code = exercise_1 /\ e.max_points = 25
           /\ f.code = Excercise_2 /\ f.max_points = 0 /\ f.id > g.id
           /\ g.code = Excercise_2 /\ g.max_points = 10

-----------------------------------------------------------------------------
(* C34: path is a key *)

\* C34: in every state reached by passes over the roots, whatever their
\* order, no two Submission rows have the same path; the table declares no
\* uniqueness on path, the pass looks the path up before it inserts.
C34_PathIsKey ==
    \A s, t \in db.submissions : s.path = t.path => s = t

\* A pass over a/Sheet-1 has just found again the directory whose row was
\* graded after an earlier pass, next to a second row.
C34_Witness ==
    /\ last.call = "scan"
    /\ last.raised = NoError
    /\ last.root = RootA1
    /\ Cardinality(db.submissions) = 2
    /\ \E s \in db.submissions :
           /\ s.path = Join(Join(RootA1, exercise_1), Alice_Bob_ABC123)
           /\ s.status = "FINAL_MARK"

-----------------------------------------------------------------------------
(* C35: cross-root isolation *)

\* C35: a pass over root R deletes or modifies only Submission rows whose
\* path lies under R; every other Submission row stays as it is, with its
\* status and its Feedback row, also when its root has the base name of R.
C35_CrossRootIsolation ==
    [][ last'.call = "scan" =>
          \A s \in db.submissions :
              ~StartsWith(s.path, last'.root) =>
                  /\ s \in db'.submissions
                  /\ FeedbackOf(db', s.id) = FeedbackOf(db, s.id) ]_vars

-----------------------------------------------------------------------------
(* C36: max-points are sheet-scoped *)

\* C36: save_exercise_max_points for an exercise code changes max_points only
\* for the Exercise of one Sheet, the one being worked on, and Exercise rows
\* of other Sheets with the same code keep theirs; get_exercise_max_points
\* reports for each Exercise the value set for it.
C36_SheetScopedMaxPoints ==
    /\ [](\A e \in db.exercises :
              get_exercise_max_points(db)[e.code] = e.max_points)
    /\ [][ last'.call = "save_exercise_max_points" =>
              \E sheet \in db.sheets :
                  \A e \in db.exercises :
                      e.sheet_id # sheet.id => e \in db'.exercises ]_vars

-----------------------------------------------------------------------------
(* C37: the denormalized keys of a Feedback row agree with its Submission *)

\* C37: in every state, a Feedback row whose Submission is in the store has
\* the sheet_id and the exercise_id of that Submission: the save copies them
\* and the passes that follow leave them equal.
C37_FeedbackKeysAgree ==
    \A f \in db.feedback : \A s \in db.submissions :
        f.submission_id = s.id =>
            f.sheet_id = s.sheet_id /\ f.exercise_id = s.exercise_id

\* A pass has just gone over the store in which the submission of the second
\* exercise directory has a Feedback row.
C37_Witness ==
    /\ last.call = "scan"
    /\ last.raised = NoError
    /\ \E f \in db.feedback : \E s \in db.submissions :
           /\ f.submission_id = s.id
           /\ s.path = Join(Join(RootA1, Excercise_2), Carl)
           /\ \E e \in db.exercises :
                  e.id = f.exercise_id /\ e.code = Excercise_2 /\ e.id # f.sheet_id

-----------------------------------------------------------------------------
(* C38: Submission ids are never reused *)

Issued(d) == 1..d.sqlite_sequence.submissions
Row(d, id) == {s \in d.submissions : s.id = id}

\* A step gives every Submission row it inserts an id that no row had
\* before, and the new row has no Feedback; an id that was given out and
\* whose row is gone stays without a row, and an id keeps its path, so the
\* review position, when a step leaves it as it was, names the submission it
\* named before or none.
C38_IdStep ==
    /\ \A s \in db'.submissions :
           Row(db, s.id) = {} =>
               /\ s.id \notin Issued(db)
               /\ get_feedback(db', s.id) = None
    /\ \A id \in Issued(db) : Row(db, id) = {} => Row(db', id) = {}
    /\ \A s \in db.submissions : \A t \in Row(db', s.id) : t.path = s.path
    /\ get_review_current_submission_id(db') = get_review_current_submission_id(db) =>
           \A id \in get_review_current_submission_id(db) :
               \A t \in Row(db', id) : \E s \in Row(db, id) : s.path = t.path

\* Every row has an id that was given out, and no two rows have one id.
C38_IdsIssued ==
    /\ \A s \in db.submissions : s.id \in Issued(db)
    /\ \A s, t \in db.submissions : s.id = t.id => s = t

\* C38: after a Submission row is pruned no Submission inserted later, one
\* found again at the same path included, gets its id: a new Submission has
\* no Feedback until a save for it, and a stored review position never comes
\* to name another submission than the one it was stored for.
C38_IdsNeverReused ==
    [](C38_IdsIssued) /\ [][C38_IdStep]_vars

\* The graded submission was removed and unpacked again: the pass has just
\* given its path the id 2, the Feedback row of id 1 is still in the store,
\* the review position still holds 1, and the new row has no Feedback.
C38_Witness ==
    /\ last.call = "scan"
    /\ db.submissions # {}
    /\ \A s \in db.submissions :
           /\ s.id = 2
           /\ s.path = Join(Join(RootA1, exercise_1), Alice_Bob_ABC123)
           /\ s.status = "SUBMITTED"
    /\ \E f \in db.feedback : f.submission_id = 1
    /\ get_feedback(db, 2) = None
    /\ get_review_current_submission_id(db) = {1}

-----------------------------------------------------------------------------
(* C39: a pass over a root directory that is not on disk *)

\* C39: a pass over a root that is not on disk ends in an error the caller
\* gets, FileNotFoundError when there is no marks.csv to read first, and
\* persists nothing: the store is as before, without a new Sheet row for the
\* base name and with every Submission, Exercise and Feedback row as it was.
C39_MissingRootPersistsNothing ==
    [][ (last'.call = "scan" /\ ~IsDir(last'.root)) =>
          /\ last'.raised # NoError
          /\ ~Exists(Join(last'.root, marks_csv_name)) =>
                 last'.raised = "FileNotFoundError"
          /\ db'.sheets = db.sheets
          /\ db'.exercises = db.exercises
          /\ db'.submissions = db.submissions
          /\ db'.feedback = db.feedback ]_vars

\* The root was scanned and its submission graded, then it was removed from
\* disk: the pass over it has just failed, and the Sheet, the graded
\* Submission and its Feedback are still in the store.
C39_Witness ==
    /\ last.call = "scan"
    /\ last.root = RootMissing
    /\ last.raised = "FileNotFoundError"
    /\ ~IsDir(RootMissing)
    /\ \E sheet \in db.sheets : sheet.name = Nope
    /\ \E s \in db.submissions :
           /\ StartsWith(s.path, RootMissing)
           /\ s.status = "FINAL_MARK"
           /\ get_feedback(db, s.id) # None

-----------------------------------------------------------------------------
(* C40: the header line of the roster *)

\* The rows of a roster after its first line that hold an id.
DataRows(file) == {i \in 2..Len(file.lines) : file.lines[i] # <<>>}

\* The loader returns, for a marks.csv with any number of lines, the mapping
\* of the first to the second column of the rows after the first line, the
\* last row of an id winning; it is empty when there is no such row.
C40_LoaderSkipsFirstLine ==
    \A root \in Roots :
        marks_csv[root].exists =>
            LET file == marks_csv[root]
                res == load_names_from_csv(file)
            IN  /\ res.raised = NoError
                /\ DOMAIN res.names = {file.lines[i][1] : i \in DataRows(file)}
                /\ \A i \in DataRows(file) :
                       (\A j \in DataRows(file) :
                            file.lines[j][1] = file.lines[i][1] => j <= i)
                           => res.names[file.lines[i][1]] = file.lines[i][2]

\* A pass over a root whose marks.csv holds at most the header line does not
\* fail on the roster and gives its submissions their directory names.
C40_PassProceeds ==
    (/\ last'.call = "scan"
     /\ marks_csv[last'.root].exists
     /\ Len(marks_csv[last'.root].lines) <= 1) =>
        /\ last'.raised # "StopIteration"
        /\ last'.raised = NoError =>
               \A s \in db'.submissions :
                   StartsWith(s.path, last'.root) => s.submitter = s.group_name

\* C40: load_names_from_csv skips exactly the first line whatever it holds
\* and maps the first column to the second for every later row, the last row
\* of an id winning; a marks.csv that holds only the header line, or no line
\* at all, gives the empty mapping, and the pass goes on with the directory
\* names as display names.
C40_RosterHeader ==
    [](C40_LoaderSkipsFirstLine) /\ [][C40_PassProceeds]_vars
====
